---------------------------- MODULE Spec2Model ----------------------------
(***************************************************************************)
(* Canvas-GitHub agent: the pipeline of CanvasGitHubAgent.run              *)
(* (src/main.py) with the course, repository and page collaborators of     *)
(* src/canvas_tools.py, src/github_tools.py and src/notion_tools.py, and   *)
(* the pure text functions of src/main.py and src/templates.py.            *)
(*                                                                         *)
(* Text is a sequence of one-character strings.  An optional value (None   *)
(* in the source) is the empty sequence, a present value v is <<v>>.       *)
(***************************************************************************)
EXTENDS Integers, Sequences, FiniteSets, TLC

VARIABLES
    pc,               \* position of the operation in progress
    env,              \* the process environment (os.environ)
    agent,            \* fields set by the constructors
    mock,             \* the two tasks replaced by stubs, as the tests do, or None
    args,             \* arguments of the call in progress (optional)
    assignments,      \* fetch_assignment_task: the listing
    listed,           \* length of the listing the course service returned, -1 before
    assignment,       \* run: the assignment record (optional)
    assignment_type,  \* run: the selected type (optional)
    prompts,          \* confirm_assignment_type: answers rejected so far
    inferCount,       \* invocations of infer_assignment_type
    taskCalls,        \* invocations of the two destination tasks
    result,           \* run: what the destination task returned (optional)
    repo,             \* create_repository_task: the repository record (optional)
    starter_files,    \* create_repository_task: the paths of the FileSet, in order
    fileIdx,          \* create_directory_structure: index of the entry in hand
    success,          \* create_directory_structure: the accumulated flag
    uploadLog,        \* paths handed to create_or_update_file, in call order
    uploadFailed,     \* some create_file call did not succeed
    ret,              \* value a callee hands back to its caller
    exc,              \* exception in flight inside a session (optional)
    sessions,         \* open MCP sessions, per service
    calls,            \* remote calls made, per operation
    printed,          \* failure messages printed by run and its tasks
    outcome           \* how the entry point ended

cfgVars == <<env, agent, mock>>
fetchVars == <<assignments, listed>>
selVars == <<assignment, assignment_type, prompts, inferCount, taskCalls>>
runVars == <<selVars, result>>
repoVars == <<repo, starter_files, fileIdx, success, uploadLog, uploadFailed>>
ioVars == <<ret, exc, sessions, calls>>
endVars == <<printed, outcome>>

vars == <<pc, args, cfgVars, fetchVars, runVars, repoVars, ioVars, endVars>>

None == <<>>
Some(v) == <<v>>
IsNone(o) == o = <<>>
Val(o) == o[1]

-----------------------------------------------------------------------------
(* Bounds of the model *)

MaxAssignments == 2     \* longest course listing in the fetch specification
MaxRunAssignments == 1  \* longest course listing in the pipeline specification
MaxTime == 2            \* due instants range over 0..MaxTime
MaxPrompts == 2         \* confirmation prompts answered before a valid answer
MaxSlugLen == 4         \* longest name given to normalize_slug in the function specification

-----------------------------------------------------------------------------
(* Text *)

Upper == <<"A","B","C","D","E","F","G","H","I","J","K","L","M",
           "N","O","P","Q","R","S","T","U","V","W","X","Y","Z">>
Lower == <<"a","b","c","d","e","f","g","h","i","j","k","l","m",
           "n","o","p","q","r","s","t","u","v","w","x","y","z">>
Digits == <<"0","1","2","3","4","5","6","7","8","9">>

RangeOf(s) == { s[i] : i \in DOMAIN s }

\* str.lower() of one character
LowerChar(c) ==
    IF c \in RangeOf(Upper)
    THEN Lower[CHOOSE i \in DOMAIN Upper : Upper[i] = c]
    ELSE c

\* str.lower()
ToLower(s) == [i \in DOMAIN s |-> LowerChar(s[i])]

\* The backtick character, which a TLA+ string cannot hold
Backtick == "BACKTICK"

\* The no-break space U+00A0, which unescape gives for &nbsp;
Nbsp == "NBSP"

\* str.isspace() of one character
IsSpace(c) == c \in {" ", "\n", "\t", "\r", Nbsp}

\* str.strip() with no argument
RECURSIVE LStrip(_)
LStrip(s) == IF s # <<>> /\ IsSpace(Head(s)) THEN LStrip(Tail(s)) ELSE s

RECURSIVE RStrip(_)
RStrip(s) ==
    IF s # <<>> /\ IsSpace(s[Len(s)]) THEN RStrip(SubSeq(s, 1, Len(s) - 1)) ELSE s

Strip(s) == RStrip(LStrip(s))

\* keyword in text
Contains(text, kw) ==
    \E i \in 1..(Len(text) - Len(kw) + 1) : SubSeq(text, i, i + Len(kw) - 1) = kw

StartsWith(s, p) == Len(s) >= Len(p) /\ SubSeq(s, 1, Len(p)) = p

\* s[:n]
Prefix(s, n) == SubSeq(s, 1, IF Len(s) < n THEN Len(s) ELSE n)

\* Position of the ">" closing a tag opened at s[1] = "<" under the pattern
\* <[^>]+> : the first ">" after the "<", with at least one character between;
\* 0 when the pattern does not match at s[1].
TagEnd(s) ==
    IF s = <<>> \/ Head(s) # "<" THEN 0
    ELSE IF \E j \in 2..Len(s) : s[j] = ">"
         THEN LET j == CHOOSE k \in 2..Len(s) :
                           s[k] = ">" /\ \A m \in 2..(k - 1) : s[m] # ">"
              IN IF j >= 3 THEN j ELSE 0
         ELSE 0

\* re.sub(r'<[^>]+>', '', text)
RECURSIVE RemoveTags(_)
RemoveTags(s) ==
    IF s = <<>> THEN <<>>
    ELSE IF TagEnd(s) > 0 THEN RemoveTags(SubSeq(s, TagEnd(s) + 1, Len(s)))
    ELSE <<Head(s)>> \o RemoveTags(Tail(s))

\* CanvasGitHubAgent.strip_html: text is optional (None or "" give "")
strip_html(text) ==
    IF IsNone(text) \/ Val(text) = <<>> THEN <<>>
    ELSE Strip(RemoveTags(Val(text)))

-----------------------------------------------------------------------------
(* Assignment records.  due_at stands for the string by what the date      *)
(* parser makes of it: absent (or null or empty), unparsable, a datetime   *)
(* without a zone ("2026-03-01T10:00:00") or one with a zone               *)
(* ("2026-03-01T10:00:00Z"), at instant t.                                 *)

DueAbsent == [kind |-> "absent", t |-> 0]
DueBad == [kind |-> "bad", t |-> 0]
DueNaive(t) == [kind |-> "naive", t |-> t]
DueAware(t) == [kind |-> "aware", t |-> t]

Times == 0..MaxTime
DueValues ==
    {DueAbsent, DueBad} \cup {DueNaive(t) : t \in Times} \cup {DueAware(t) : t \in Times}

\* datetime.now(): a datetime without a zone
Now == 0

\* a.get("due_at") is truthy
HasDue(a) == a.due_at.kind # "absent"

\* dateutil_parser.parse: ValueError on an unparsable string
ParseRaises(d) == d.kind = "bad"

\* due_date > now raises TypeError between a zoned and an unzoned datetime
CompareRaises(d) == d.kind = "aware"

\* main.py 152-160: the assignment is appended to upcoming
IsUpcoming_or_now(a) ==
    /\ HasDue(a)
    /\ ~ParseRaises(a.due_at)
    /\ ~CompareRaises(a.due_at)
    /\ a.due_at.t >= Now

IsUpcoming(a) ==
    /\ HasDue(a)
    /\ ~ParseRaises(a.due_at)
    /\ ~CompareRaises(a.due_at)
    /\ a.due_at.t > Now

RECURSIVE Filter(_, _)
Filter(s, keep) ==
    IF s = <<>> THEN <<>>
    ELSE (IF keep[Head(s)] THEN <<Head(s)>> ELSE <<>>) \o Filter(Tail(s), keep)

Upcoming(listing) ==
    Filter(listing, [a \in RangeOf(listing) |-> IsUpcoming(a)])

\* Code-point order of the characters of timestamps and names
CodeOrder == <<" ", "#", "-", ".", "/">> \o Digits \o <<":">> \o Upper \o <<"_">> \o Lower
Ord(c) == CHOOSE i \in DOMAIN CodeOrder : CodeOrder[i] = c

\* a < b on str
RECURSIVE StrLess(_, _)
StrLess(a, b) ==
    IF b = <<>> THEN FALSE
    ELSE IF a = <<>> THEN TRUE
    ELSE IF Head(a) = Head(b) THEN StrLess(Tail(a), Tail(b))
    ELSE Ord(Head(a)) < Ord(Head(b))

\* x.get("created_at", "")
CreatedKey(a) == IF IsNone(a.created_at) THEN <<>> ELSE Val(a.created_at)

\* list.sort (stable): x goes behind every element that does not sort after it
RECURSIVE InsertByDue(_, _)
InsertByDue(sorted, x) ==
    IF sorted = <<>> THEN <<x>>
    ELSE IF x.due_at.t < Head(sorted).due_at.t THEN <<x>> \o sorted
    ELSE <<Head(sorted)>> \o InsertByDue(Tail(sorted), x)

RECURSIVE SortByDue(_)
SortByDue(s) ==
    IF s = <<>> THEN <<>>
    ELSE InsertByDue(SortByDue(SubSeq(s, 1, Len(s) - 1)), s[Len(s)])

\* list.sort(reverse=True) (stable): x goes behind every element whose key is
\* not smaller
RECURSIVE InsertByCreatedDesc(_, _)
InsertByCreatedDesc(sorted, x) ==
    IF sorted = <<>> THEN <<x>>
    ELSE IF StrLess(CreatedKey(Head(sorted)), CreatedKey(x)) THEN <<x>> \o sorted
    ELSE <<Head(sorted)>> \o InsertByCreatedDesc(Tail(sorted), x)

RECURSIVE InsertByCreatedAsc(_, _)
InsertByCreatedAsc(sorted, x) ==
    IF sorted = <<>> THEN <<x>>
    ELSE IF StrLess(CreatedKey(x), CreatedKey(Head(sorted))) THEN <<x>> \o sorted
    ELSE <<Head(sorted)>> \o InsertByCreatedAsc(Tail(sorted), x)

\* The sort without reverse=True
RECURSIVE SortByCreatedDesc_ascending(_)
SortByCreatedDesc_ascending(s) ==
    IF s = <<>> THEN <<>>
    ELSE InsertByCreatedAsc(SortByCreatedDesc_ascending(SubSeq(s, 1, Len(s) - 1)), s[Len(s)])

RECURSIVE SortByCreatedDesc(_)
SortByCreatedDesc(s) ==
    IF s = <<>> THEN <<>>
    ELSE InsertByCreatedDesc(SortByCreatedDesc(SubSeq(s, 1, Len(s) - 1)), s[Len(s)])

\* What a function hands back: a value, or an exception
Return(v) == [raised |-> FALSE, error |-> "", value |-> v]
Raise(e) == [raised |-> TRUE, error |-> e, value |-> None]

\* CanvasTools.get_assignment_details after the listing: the first assignment
\* whose id matches, or None
RECURSIVE FirstWithId(_, _)
FirstWithId(listing, id) ==
    IF listing = <<>> THEN None
    ELSE IF Head(listing).id = id THEN Some(Head(listing))
    ELSE FirstWithId(Tail(listing), id)

\* fetch_assignment_task, no identifier given, after the listing
NextUpcoming_noraise(listing) ==
    IF listing = <<>> THEN Return(None)
    ELSE IF Upcoming(listing) # <<>> THEN Return(Some(SortByDue(Upcoming(listing))[1]))
    ELSE Return(Some(SortByCreatedDesc(listing)[1]))

NextUpcoming(listing) ==
    IF listing = <<>> THEN Raise("ValueError")
    ELSE IF Upcoming(listing) # <<>> THEN Return(Some(SortByDue(Upcoming(listing))[1]))
    ELSE Return(Some(SortByCreatedDesc(listing)[1]))

-----------------------------------------------------------------------------
(* Assignment Classifier *)

coding_keywords ==
    { <<"c", "o", "d", "e">>,
      <<"c", "o", "d", "i", "n", "g">>,
      <<"p", "r", "o", "g", "r", "a", "m">>,
      <<"p", "r", "o", "g", "r", "a", "m", "m", "i", "n", "g">>,
      <<"a", "l", "g", "o", "r", "i", "t", "h", "m">>,
      <<"i", "m", "p", "l", "e", "m", "e", "n", "t">>,
      <<"f", "u", "n", "c", "t", "i", "o", "n">>,
      <<"c", "l", "a", "s", "s">>,
      <<"m", "e", "t", "h", "o", "d">>,
      <<"s", "c", "r", "i", "p", "t">>,
      <<"c", "o", "m", "p", "i", "l", "e">>,
      <<"r", "u", "n">>,
      <<"t", "e", "s", "t">>,
      <<"p", "y", "t", "e", "s", "t">>,
      <<"j", "a", "v", "a">>,
      <<"p", "y", "t", "h", "o", "n">>,
      <<"j", "a", "v", "a", "s", "c", "r", "i", "p", "t">>,
      <<"c", "+", "+">>,
      <<"c", "p", "p">>,
      <<"r", "e", "p", "o", "s", "i", "t", "o", "r", "y">>,
      <<"g", "i", "t", "h", "u", "b">>,
      <<"g", "i", "t">>,
      <<"a", "p", "i">>,
      <<"s", "o", "f", "t", "w", "a", "r", "e">>,
      <<"d", "e", "b", "u", "g">>,
      <<"b", "u", "i", "l", "d">> }

writing_keywords ==
    { <<"e", "s", "s", "a", "y">>,
      <<"p", "a", "p", "e", "r">>,
      <<"r", "e", "f", "l", "e", "c", "t", "i", "o", "n">>,
      <<"j", "o", "u", "r", "n", "a", "l">>,
      <<"d", "i", "s", "c", "u", "s", "s", "i", "o", "n">>,
      <<"t", "h", "e", "s", "i", "s">>,
      <<"a", "n", "n", "o", "t", "a", "t", "e", "d", " ", "b", "i", "b", "l", "i", "o", "g", "r", "a", "p", "h", "y">>,
      <<"l", "i", "t", "e", "r", "a", "t", "u", "r", "e", " ", "r", "e", "v", "i", "e", "w">>,
      <<"r", "e", "p", "o", "r", "t">>,
      <<"s", "u", "m", "m", "a", "r", "y">>,
      <<"a", "r", "g", "u", "m", "e", "n", "t">>,
      <<"d", "r", "a", "f", "t">>,
      <<"c", "i", "t", "a", "t", "i", "o", "n">>,
      <<"m", "l", "a">>,
      <<"a", "p", "a">>,
      <<"w", "r", "i", "t", "i", "n", "g">>,
      <<"p", "a", "r", "a", "g", "r", "a", "p", "h">> }

Score(text, keywords) == Cardinality({k \in keywords : Contains(text, k)})

\* assignment.get("description", "") read as optional text
DescriptionOf(a) == a.description

infer_assignment_type_writing_on_tie(a) ==
    LET text == ToLower(a.name \o <<" ">> \o strip_html(DescriptionOf(a)))
    IN IF Score(text, coding_keywords) > Score(text, writing_keywords)
       THEN "coding" ELSE "writing"

infer_assignment_type(a) ==
    LET text == ToLower(a.name \o <<" ">> \o strip_html(DescriptionOf(a)))
    IN IF Score(text, coding_keywords) >= Score(text, writing_keywords)
       THEN "coding" ELSE "writing"

-----------------------------------------------------------------------------
(* Slug Normalizer *)

IsLowerAlnum(c) == c \in RangeOf(Lower) \cup RangeOf(Digits)

\* The substitution without the +: every character of a run becomes a hyphen
HyphenateRuns_each(s) == [i \in DOMAIN s |-> IF IsLowerAlnum(s[i]) THEN s[i] ELSE "-"]

\* re.sub(r'[^a-z0-9]+', '-', slug): every maximal run becomes one hyphen
RECURSIVE HyphenateRuns(_)
HyphenateRuns(s) ==
    IF s = <<>> THEN <<>>
    ELSE IF IsLowerAlnum(Head(s)) THEN <<Head(s)>> \o HyphenateRuns(Tail(s))
    ELSE IF Len(s) >= 2 /\ ~IsLowerAlnum(s[2]) THEN HyphenateRuns(Tail(s))
    ELSE <<"-">> \o HyphenateRuns(Tail(s))

RECURSIVE LStripHyphen(_)
LStripHyphen(s) == IF s # <<>> /\ Head(s) = "-" THEN LStripHyphen(Tail(s)) ELSE s

RECURSIVE RStripHyphen(_)
RStripHyphen(s) ==
    IF s # <<>> /\ s[Len(s)] = "-" THEN RStripHyphen(SubSeq(s, 1, Len(s) - 1)) ELSE s

\* The hyphens stripped before the substitution instead of after it
normalize_slug_strip_first(name) == HyphenateRuns(LStripHyphen(RStripHyphen(ToLower(name))))

normalize_slug(name) == RStripHyphen(LStripHyphen(HyphenateRuns(ToLower(name))))

-----------------------------------------------------------------------------
(* HTML-to-Markdown Converter: one operator for each pass of re.sub, in    *)
(* the order of the source.                                                *)

\* Least index >= i at which pat occurs in s, or 0
FindFrom(s, pat, i) ==
    LET hits == { k \in i..(Len(s) - Len(pat) + 1) : SubSeq(s, k, k + Len(pat) - 1) = pat }
    IN IF hits = {} THEN 0 ELSE CHOOSE k \in hits : \A m \in hits : k <= m

\* re.sub(r'<p[^>]*>(.*?)</p>', r'\n\1\n', text, flags=re.DOTALL)
RECURSIVE SubParagraphs(_)
SubParagraphs(s) ==
    IF s = <<>> THEN <<>>
    ELSE LET gt == IF StartsWith(s, <<"<", "p">>) THEN FindFrom(s, <<">">>, 3) ELSE 0
             close == IF gt > 0 THEN FindFrom(s, <<"<", "/", "p", ">">>, gt + 1) ELSE 0
         IN IF close > 0
            THEN <<"\n">> \o SubSeq(s, gt + 1, close - 1) \o <<"\n">>
                     \o SubParagraphs(SubSeq(s, close + 4, Len(s)))
            ELSE <<Head(s)>> \o SubParagraphs(Tail(s))

\* re.sub(r'\n{3,}', '\n\n', text)
RECURSIVE CollapseNewlines(_)
CollapseNewlines(s) ==
    IF s = <<>> THEN <<>>
    ELSE IF Len(s) >= 3 /\ s[1] = "\n" /\ s[2] = "\n" /\ s[3] = "\n"
         THEN CollapseNewlines(Tail(s))
    ELSE <<Head(s)>> \o CollapseNewlines(Tail(s))

\* The character references of the texts of this model and what unescape
\* gives for each; a text holds no other "&" sequence that unescape decodes
Entities ==
    << [ref |-> <<"&", "l", "t", ";">>, char |-> "<"], [ref |-> <<"&", "g", "t", ";">>, char |-> ">"],
       [ref |-> <<"&", "a", "m", "p", ";">>, char |-> "&"], [ref |-> <<"&", "q", "u", "o", "t", ";">>, char |-> "\""],
       [ref |-> <<"&", "n", "b", "s", "p", ";">>, char |-> Nbsp], [ref |-> <<"&", "#", "1", "0", ";">>, char |-> "\n"] >>

\* Line 22: unescape(text), one pass from left to right
RECURSIVE unescape(_)
unescape(s) ==
    IF s = <<>> THEN <<>>
    ELSE LET refs == { i \in DOMAIN Entities : StartsWith(s, Entities[i].ref) }
         IN IF refs = {} THEN <<Head(s)>> \o unescape(Tail(s))
            ELSE LET e == Entities[CHOOSE i \in refs : TRUE]
                 IN <<e.char>> \o unescape(SubSeq(s, Len(e.ref) + 1, Len(s)))

\* A literal of a pattern at position i (the patterns are case sensitive)
At(s, i, lit) == i + Len(lit) - 1 <= Len(s) /\ SubSeq(s, i, i + Len(lit) - 1) = lit

\* \s* from position i: the first position that holds no white space
SkipSpaces(s, i) ==
    CHOOSE k \in i..(Len(s) + 1) :
        /\ k = Len(s) + 1 \/ ~IsSpace(s[k])
        /\ \A j \in i..(k - 1) : IsSpace(s[j])

\* One opening of a pattern matched at position i, the position of its last
\* character or 0.  exact: the literal alone; attrs: the literal, [^>]*, ">";
\* space: the literal, \s*, /?, ">"
PartEnd(s, i, part) ==
    IF ~At(s, i, part.lit) THEN 0
    ELSE IF part.kind = "exact" THEN i + Len(part.lit) - 1
    ELSE IF part.kind = "attrs" THEN FindFrom(s, <<">">>, i + Len(part.lit))
    ELSE LET j == SkipSpaces(s, i + Len(part.lit))
             k == IF j <= Len(s) /\ s[j] = "/" THEN j + 1 ELSE j
         IN IF k <= Len(s) /\ s[k] = ">" THEN k ELSE 0

\* The openings of a pattern one after the other from position i
RECURSIVE OpenEnd(_, _, _)
OpenEnd(s, i, parts) ==
    IF parts = <<>> THEN i - 1
    ELSE IF PartEnd(s, i, Head(parts)) = 0 THEN 0
    ELSE OpenEnd(s, PartEnd(s, i, Head(parts)) + 1, Tail(parts))

\* (.*?) with re.DOTALL followed by a closing literal: the first closing
\* literal from position i on
FirstClose(s, i, closes) ==
    LET found == { k \in i..Len(s) : \E c \in closes : At(s, k, c) }
    IN IF found = {} THEN [at |-> 0, len |-> 0]
       ELSE LET k == CHOOSE m \in found : \A n \in found : m <= n
            IN [at |-> k, len |-> Len(CHOOSE c \in closes : At(s, k, c))]

Exact(lit) == [lit |-> lit, kind |-> "exact"]
Attrs(lit) == [lit |-> lit, kind |-> "attrs"]
Spaced(lit) == [lit |-> lit, kind |-> "space"]

\* A pattern with a group between an opening and a closing tag, and its
\* replacement: before \1 after, the group kept, stripped or dropped
Enclosed(parts, closes, before, group, after) ==
    [pattern |-> "tags", parts |-> parts, closes |-> closes, before |-> before,
     group |-> group, after |-> after]

\* A pattern of one tag and its replacement
Single(part, replacement) ==
    [pattern |-> "tags", parts |-> <<part>>, closes |-> {}, before |-> replacement,
     group |-> "drop", after |-> <<>>]

\* The patterns of a link and of an image, with and without alt
Special(pattern) ==
    [pattern |-> pattern, parts |-> <<>>, closes |-> {}, before |-> <<>>, group |-> "drop",
     after |-> <<>>]

Unmatched == [end |-> 0, text |-> <<>>]

\* name="value" at position k: the position of the closing quote or 0.  The
\* value is [^"]+ or, if empty is allowed, [^"]*; it may hold ">".
ValueQuote(s, k, name, empty) ==
    IF ~At(s, k, name) THEN 0
    ELSE IF ~empty /\ FindFrom(s, <<"\"">>, k + Len(name)) = k + Len(name) THEN 0
    ELSE FindFrom(s, <<"\"">>, k + Len(name))

\* The positions [^>]* can reach from position i
BeforeGt(s, i) ==
    IF FindFrom(s, <<">">>, i) = 0 THEN i..Len(s) ELSE i..(FindFrom(s, <<">">>, i) - 1)

\* [^>]*alt="([^"]*)"[^>]*/?> from position i: the position of alt=", the
\* last one that lets the rest match (the run before it is greedy), or 0
AltAt(s, i) ==
    LET usable == { k \in BeforeGt(s, i) :
                      /\ ValueQuote(s, k, <<"a", "l", "t", "=", "\"">>, TRUE) > 0
                      /\ FindFrom(s, <<">">>, ValueQuote(s, k, <<"a", "l", "t", "=", "\"">>, TRUE) + 1) > 0 }
    IN IF usable = {} THEN 0 ELSE CHOOSE k \in usable : \A n \in usable : n <= k

\* Line 48: <img[^>]+src="([^"]+)"[^>]*alt="([^"]*)"[^>]*/?> at the head of s
ImageAltAt(s) ==
    LET usable == { k \in BeforeGt(s, 5) \ {5} :
                      /\ ValueQuote(s, k, <<"s", "r", "c", "=", "\"">>, FALSE) > 0
                      /\ AltAt(s, ValueQuote(s, k, <<"s", "r", "c", "=", "\"">>, FALSE) + 1) > 0 }
    IN IF ~At(s, 1, <<"<", "i", "m", "g">>) \/ usable = {} THEN Unmatched
       ELSE LET k == CHOOSE m \in usable : \A n \in usable : n <= m
                q == ValueQuote(s, k, <<"s", "r", "c", "=", "\"">>, FALSE)
                a == AltAt(s, q + 1)
                aq == ValueQuote(s, a, <<"a", "l", "t", "=", "\"">>, TRUE)
            IN [end |-> FindFrom(s, <<">">>, aq + 1),
                text |-> <<"!", "[">> \o SubSeq(s, a + 5, aq - 1) \o <<"]", "(">>
                             \o SubSeq(s, k + 5, q - 1) \o <<")">>]

\* Line 49: <img[^>]+src="([^"]+)"[^>]*/?> at the head of s
ImageAt(s) ==
    LET usable == { k \in BeforeGt(s, 5) \ {5} :
                      /\ ValueQuote(s, k, <<"s", "r", "c", "=", "\"">>, FALSE) > 0
                      /\ FindFrom(s, <<">">>, ValueQuote(s, k, <<"s", "r", "c", "=", "\"">>, FALSE) + 1) > 0 }
    IN IF ~At(s, 1, <<"<", "i", "m", "g">>) \/ usable = {} THEN Unmatched
       ELSE LET k == CHOOSE m \in usable : \A n \in usable : n <= m
                q == ValueQuote(s, k, <<"s", "r", "c", "=", "\"">>, FALSE)
            IN [end |-> FindFrom(s, <<">">>, q + 1),
                text |-> <<"!", "[", "i", "m", "a", "g", "e", "]", "(">> \o SubSeq(s, k + 5, q - 1) \o <<")">>]

\* Line 45: <a[^>]+href="([^"]+)"[^>]*>(.*?)</a> at the head of s
LinkAt(s) ==
    LET Gt(k) == FindFrom(s, <<">">>, ValueQuote(s, k, <<"h", "r", "e", "f", "=", "\"">>, FALSE) + 1)
        usable == { k \in BeforeGt(s, 3) \ {3} :
                      /\ ValueQuote(s, k, <<"h", "r", "e", "f", "=", "\"">>, FALSE) > 0
                      /\ Gt(k) > 0
                      /\ FirstClose(s, Gt(k) + 1, {<<"<", "/", "a", ">">>}).at > 0 }
    IN IF ~At(s, 1, <<"<", "a">>) \/ usable = {} THEN Unmatched
       ELSE LET k == CHOOSE m \in usable : \A n \in usable : n <= m
                q == ValueQuote(s, k, <<"h", "r", "e", "f", "=", "\"">>, FALSE)
                c == FirstClose(s, Gt(k) + 1, {<<"<", "/", "a", ">">>}).at
            IN [end |-> c + 3,
                text |-> <<"[">> \o SubSeq(s, Gt(k) + 1, c - 1) \o <<"]", "(">>
                             \o SubSeq(s, k + 6, q - 1) \o <<")">>]

\* A pattern matched at the head of s: the end of the match and its replacement
RuleAt(s, rule) ==
    LET e == OpenEnd(s, 1, rule.parts)
        c == FirstClose(s, e + 1, rule.closes)
    IN IF rule.pattern = "link" THEN LinkAt(s)
       ELSE IF rule.pattern = "image_alt" THEN ImageAltAt(s)
       ELSE IF rule.pattern = "image" THEN ImageAt(s)
       ELSE IF e = 0 THEN Unmatched
       ELSE IF rule.closes = {} THEN [end |-> e, text |-> rule.before]
       ELSE IF c.at = 0 THEN Unmatched
       ELSE [end |-> c.at + c.len - 1,
             text |-> rule.before
                      \o (IF rule.group = "keep" THEN SubSeq(s, e + 1, c.at - 1)
                          ELSE IF rule.group = "strip" THEN Strip(SubSeq(s, e + 1, c.at - 1))
                          ELSE <<>>)
                      \o rule.after]

\* The alternatives of a pattern tried in order at the head of s
RECURSIVE FirstRuleAt(_, _)
FirstRuleAt(s, rules) ==
    IF rules = <<>> THEN Unmatched
    ELSE IF RuleAt(s, Head(rules)).end > 0 THEN RuleAt(s, Head(rules))
    ELSE FirstRuleAt(s, Tail(rules))

\* re.sub of a pattern given by its alternatives
RECURSIVE Sub(_, _)
Sub(s, rules) ==
    IF s = <<>> THEN <<>>
    ELSE IF Head(s) = "<" /\ FirstRuleAt(s, rules).end > 0
         THEN FirstRuleAt(s, rules).text
                  \o Sub(SubSeq(s, FirstRuleAt(s, rules).end + 1, Len(s)), rules)
    ELSE <<Head(s)>> \o Sub(Tail(s), rules)

\* Lines 25-26
Styles(s) ==
    Sub(Sub(s, << Enclosed(<<Attrs(<<"<", "s", "t", "y", "l", "e">>)>>, {<<"<", "/", "s", "t", "y", "l", "e", ">">>}, <<>>, "drop", <<>>) >>),
        << Single(Attrs(<<"<", "l", "i", "n", "k">>), <<>>) >>)

\* Lines 29-34: the heading of level lvl
Heading(s, lvl) ==
    Sub(s, << Enclosed(<<Attrs(<<"<", "h", Digits[lvl + 1]>>)>>,
                       {<<"<", "/", "h", Digits[lvl + 1], ">">>},
                       <<"\n">> \o [i \in 1..lvl |-> "#"] \o <<" ">>, "strip", <<"\n">>) >>)

Headings(s) == Heading(Heading(Heading(Heading(Heading(Heading(s, 1), 2), 3), 4), 5), 6)

\* Lines 37-38
BoldItalic(s) ==
    Sub(Sub(s, << Enclosed(<<Exact(<<"<", "s", "t", "r", "o", "n", "g", ">">>)>>, {<<"<", "/", "s", "t", "r", "o", "n", "g", ">">>}, <<"*", "*">>, "keep", <<"*", "*">>),
                  Enclosed(<<Exact(<<"<", "b", ">">>)>>, {<<"<", "/", "b", ">">>}, <<"*", "*">>, "keep", <<"*", "*">>) >>),
        << Enclosed(<<Exact(<<"<", "e", "m", ">">>)>>, {<<"<", "/", "e", "m", ">">>}, <<"*">>, "keep", <<"*">>),
           Enclosed(<<Exact(<<"<", "i", ">">>)>>, {<<"<", "/", "i", ">">>}, <<"*">>, "keep", <<"*">>) >>)

\* Lines 41-42
CodeBlocks(s) ==
    Sub(Sub(s, << Enclosed(<<Attrs(<<"<", "p", "r", "e">>), Attrs(<<"<", "c", "o", "d", "e">>)>>, {<<"<", "/", "c", "o", "d", "e", ">", "<", "/", "p", "r", "e", ">">>},
                           <<"\n", Backtick, Backtick, Backtick, "\n">>, "keep", <<"\n", Backtick, Backtick, Backtick, "\n">>) >>),
        << Enclosed(<<Exact(<<"<", "c", "o", "d", "e", ">">>)>>, {<<"<", "/", "c", "o", "d", "e", ">">>}, <<Backtick>>, "keep", <<Backtick>>) >>)

\* Lines 45-49
LinksImages(s) ==
    Sub(Sub(Sub(s, <<Special("link")>>), <<Special("image_alt")>>), <<Special("image")>>)

\* Lines 52-53
Lists(s) ==
    Sub(Sub(s, << Enclosed(<<Attrs(<<"<", "l", "i">>)>>, {<<"<", "/", "l", "i", ">">>}, <<"-", " ">>, "keep", <<>>) >>),
        << Single(Attrs(<<"<", "o", "l">>), <<"\n">>), Single(Attrs(<<"<", "u", "l">>), <<"\n">>),
           Single(Attrs(<<"<", "/", "o", "l">>), <<"\n">>), Single(Attrs(<<"<", "/", "u", "l">>), <<"\n">>) >>)

\* Lines 56-58; the pattern of line 57 is SubParagraphs
Paragraphs(s) ==
    Sub(SubParagraphs(Sub(s, << Single(Spaced(<<"<", "b", "r">>), <<"\n">>) >>)),
        << Single(Spaced(<<"<", "h", "r">>), <<"\n", "-", "-", "-", "\n">>) >>)

\* Lines 61-62
Rows(s) ==
    Sub(Sub(s, << Enclosed(<<Attrs(<<"<", "t", "r">>)>>, {<<"<", "/", "t", "r", ">">>}, <<"|", " ">>, "keep", <<"\n">>) >>),
        << Enclosed(<<Attrs(<<"<", "t", "h">>)>>, {<<"<", "/", "t", "h", ">">>, <<"<", "/", "t", "d", ">">>}, <<>>, "keep", <<" ", "|", " ">>),
           Enclosed(<<Attrs(<<"<", "t", "d">>)>>, {<<"<", "/", "t", "h", ">">>, <<"<", "/", "t", "d", ">">>}, <<>>, "keep", <<" ", "|", " ">>) >>)

\* Lines 63-65
Tables(s) ==
    Sub(Sub(Sub(s, << Single(Attrs(<<"<", "t", "a", "b", "l", "e">>), <<"\n">>), Single(Attrs(<<"<", "/", "t", "a", "b", "l", "e">>), <<"\n">>) >>),
            << Single(Attrs(<<"<", "t", "h", "e", "a", "d">>), <<>>), Single(Attrs(<<"<", "/", "t", "h", "e", "a", "d">>), <<>>) >>),
        << Single(Attrs(<<"<", "t", "b", "o", "d", "y">>), <<>>), Single(Attrs(<<"<", "/", "t", "b", "o", "d", "y">>), <<>>) >>)

\* Lines 22-65: the character references, then the targeted passes in order
TargetedPasses(s) ==
    Tables(Rows(Paragraphs(Lists(LinksImages(CodeBlocks(BoldItalic(Headings(Styles(
        unescape(s))))))))))

\* The white space trimmed before the remaining tags are stripped
html_to_markdown_trim_first(html) ==
    IF IsNone(html) \/ Val(html) = <<>> THEN <<>>
    ELSE RemoveTags(CollapseNewlines(Strip(TargetedPasses(Val(html)))))

\* html is optional text
html_to_markdown(html) ==
    IF IsNone(html) \/ Val(html) = <<>> THEN <<>>
    ELSE Strip(CollapseNewlines(RemoveTags(TargetedPasses(Val(html)))))

-----------------------------------------------------------------------------
(* Requirement Extractor: filenames *)

IsAlnum(c) == c \in RangeOf(Lower) \cup RangeOf(Upper) \cup RangeOf(Digits)
IsWordChar(c) == IsAlnum(c) \/ c = "_"
\* [A-Za-z0-9_./-]
IsNameChar(c) == IsWordChar(c) \/ c \in {".", "/", "-"}

WordAt(s, k) == k >= 1 /\ k <= Len(s) /\ IsWordChar(s[k])
\* \b in front of position k
BoundaryAt(s, k) == WordAt(s, k - 1) # WordAt(s, k)

\* End of the maximal run of characters satisfying a class, from position i
\* (i - 1 when s[i] is not in the class)
RunEnd(s, i, class) ==
    IF i > Len(s) THEN i - 1
    ELSE CHOOSE e \in (i - 1)..Len(s) :
             /\ e = Len(s) \/ ~class[s[e + 1]]
             /\ \A k \in i..e : class[s[k]]

NameClass(s) == [c \in RangeOf(s) |-> IsNameChar(c)]
AlnumClass(s) == [c \in RangeOf(s) |-> IsAlnum(c)]
SpaceClass(s) == [c \in RangeOf(s) |-> IsSpace(c)]

Max(S) == CHOOSE x \in S : \A y \in S : y <= x

\* ([A-Za-z0-9_./-]+\.[A-Za-z0-9]+) matched at position i: the end of the
\* match (greedy, backtracking to the last usable dot), or 0
NameEnd(s, i) ==
    LET run == RunEnd(s, i, NameClass(s))
        dots == { d \in (i + 1)..(run - 1) : s[d] = "." /\ IsAlnum(s[d + 1]) }
    IN IF dots = {} THEN 0 ELSE RunEnd(s, Max(dots) + 1, AlnumClass(s))

\* The same group when a backtick must follow it
QuotedNameEnd(s, i) ==
    LET run == RunEnd(s, i, NameClass(s))
        dots == { d \in (i + 1)..(run - 1) :
                     s[d] = "." /\ RunEnd(s, d + 1, AlnumClass(s)) = run }
    IN IF dots = {} \/ run >= Len(s) \/ s[run + 1] # Backtick THEN 0 ELSE run

common_extensions ==
    { <<"p","y">>, <<"t","x","t">>, <<"m","d">>, <<"j","s","o","n">>,
      <<"y","a","m","l">>, <<"y","m","l">>, <<"c","s","v">>, <<"j","a","v","a">>,
      <<"j","s">>, <<"c","p","p">>, <<"c","x","x">>, <<"c","c">>, <<"h">>,
      <<"h","p","p">> }

\* \b([A-Za-z0-9_./-]+\.(?:py|txt|...))\b matched at position i: the end of
\* the match, or 0
CommonEnd(s, i) ==
    LET run == RunEnd(s, i, NameClass(s))
        ends == { e \in (i + 2)..run :
                    /\ BoundaryAt(s, e + 1)
                    /\ \E d \in (i + 1)..(e - 1) :
                          /\ s[d] = "."
                          /\ ToLower(SubSeq(s, d + 1, e)) \in common_extensions }
    IN IF ~BoundaryAt(s, i) \/ ends = {} THEN 0 ELSE Max(ends)

\* A literal matched at position i under re.IGNORECASE
LitAt(s, i, lit) ==
    /\ i >= 1
    /\ i + Len(lit) - 1 <= Len(s)
    /\ ToLower(SubSeq(s, i, i + Len(lit) - 1)) = lit

\* The words of a phrase, each followed by \s+, matched from position i: the
\* position after the last white space, or 0
RECURSIVE PhraseEnd(_, _, _)
PhraseEnd(s, i, words) ==
    IF words = <<>> THEN i
    ELSE IF ~LitAt(s, i, Head(words)) THEN 0
    ELSE LET sp == RunEnd(s, i + Len(Head(words)), SpaceClass(s))
         IN IF sp < i + Len(Head(words)) THEN 0
            ELSE PhraseEnd(s, sp + 1, Tail(words))

explicit_patterns ==
    << [words |-> << <<"m", "u", "s", "t", " ", "b", "e", " ", "n", "a", "m", "e", "d">> >>,
        quote |-> FALSE],
       [words |-> << <<"f", "i", "l", "e", " ", "c", "a", "l", "l", "e", "d">> >>,
        quote |-> TRUE],
       [words |-> << <<"i", "n", "c", "l", "u", "d", "e">>, <<"a">>,
                     <<"f", "i", "l", "e">>, <<"n", "a", "m", "e", "d">> >>,
        quote |-> TRUE] >>

NoMatch == [from |-> 0, to |-> 0, next |-> 0]

\* One of the explicit patterns matched at position i: the group s[from..to]
\* and the position after the match
ExplicitAt(s, i, p) ==
    LET j == PhraseEnd(s, i, p.words)
        k == IF j > 0 /\ p.quote /\ j <= Len(s) /\ s[j] = Backtick THEN j + 1 ELSE j
        e == IF k > 0 THEN NameEnd(s, k) ELSE 0
    IN IF e = 0 THEN NoMatch
       ELSE [from |-> k, to |-> e,
             next |-> IF p.quote /\ e < Len(s) /\ s[e + 1] = Backtick THEN e + 2 ELSE e + 1]

\* The backtick pattern, a quoted name between two backticks, matched at position i
BacktickAt(s, i) ==
    LET e == IF s[i] = Backtick THEN QuotedNameEnd(s, i + 1) ELSE 0
    IN IF e = 0 THEN NoMatch ELSE [from |-> i + 1, to |-> e, next |-> e + 2]

CommonAt(s, i) ==
    LET e == CommonEnd(s, i)
    IN IF e = 0 THEN NoMatch ELSE [from |-> i, to |-> e, next |-> e + 1]

WordClass(s) == [c \in RangeOf(s) |-> IsWordChar(c)]

\* \b([A-Za-z_][A-Za-z0-9_]*)\s*\( matched at position i: an identifier that
\* starts a word, white space, an opening parenthesis
FunctionNameAt(s, i) ==
    IF ~(IsWordChar(s[i]) /\ s[i] \notin RangeOf(Digits) /\ BoundaryAt(s, i)) THEN NoMatch
    ELSE LET e == RunEnd(s, i, WordClass(s))
             sp == RunEnd(s, e + 1, SpaceClass(s))
         IN IF sp < Len(s) /\ s[sp + 1] = "(" THEN [from |-> i, to |-> e, next |-> sp + 2]
            ELSE NoMatch

\* kind 1..3: the explicit patterns; 4: the backtick pattern; 5: the
\* common-extension pattern; 6: the function-name pattern
MatchAt(s, i, kind) ==
    IF kind <= 3 THEN ExplicitAt(s, i, explicit_patterns[kind])
    ELSE IF kind = 4 THEN BacktickAt(s, i)
    ELSE IF kind = 5 THEN CommonAt(s, i)
    ELSE FunctionNameAt(s, i)

\* The first position from i on at which the pattern matches, or Len(s) + 1
NextStart(s, i, kind) ==
    CHOOSE k \in i..(Len(s) + 1) :
        /\ k = Len(s) + 1 \/ MatchAt(s, k, kind).to # 0
        /\ \A j \in i..(k - 1) : MatchAt(s, j, kind).to = 0

\* re.findall: leftmost matches, left to right, without overlap
RECURSIVE FindAll(_, _, _)
FindAll(s, i, kind) ==
    IF NextStart(s, i, kind) > Len(s) THEN <<>>
    ELSE LET m == MatchAt(s, NextStart(s, i, kind), kind)
         IN <<SubSeq(s, m.from, m.to)>> \o FindAll(s, m.next, kind)

\* The loop keeping every spelling once
RECURSIVE UniqueIgnoringCase_exact(_, _)
UniqueIgnoringCase_exact(names, seen) ==
    IF names = <<>> THEN <<>>
    ELSE IF Head(names) \in seen THEN UniqueIgnoringCase_exact(Tail(names), seen)
    ELSE <<Head(names)>> \o UniqueIgnoringCase_exact(Tail(names), seen \cup {Head(names)})

\* The loop over filenames keeping the first spelling of each lower-cased name
RECURSIVE UniqueIgnoringCase(_, _)
UniqueIgnoringCase(names, seen) ==
    IF names = <<>> THEN <<>>
    ELSE IF ToLower(Head(names)) \in seen THEN UniqueIgnoringCase(Tail(names), seen)
    ELSE <<Head(names)>> \o UniqueIgnoringCase(Tail(names), seen \cup {ToLower(Head(names))})

extract_required_filenames(text) ==
    IF text = <<>> THEN <<>>
    ELSE UniqueIgnoringCase(
             FindAll(text, 1, 1) \o FindAll(text, 1, 2) \o FindAll(text, 1, 3)
                 \o FindAll(text, 1, 4) \o FindAll(text, 1, 5), {})

-----------------------------------------------------------------------------
(* Starter-File Generator.  A template is its path and the placeholders of  *)
(* its text, in order of occurrence; the text between the placeholders is   *)
(* fixed and left out.  A rendered content is the sequence of the           *)
(* placeholders with the text each was replaced by.  A FileSet (dict) is    *)
(* the sequence of its items, in insertion order.                           *)

Template(path, fields) == [path |-> path, fields |-> fields]

PYTHON_TEMPLATES ==
    << Template("README.md", <<"assignment_name", "due_date">>),
       Template("requirements.txt", <<>>),
       Template("main.py", <<"assignment_name", "assignment_description">>),
       Template("tests/test_main.py", <<"assignment_name">>),
       Template(".gitignore", <<>>) >>
JAVA_TEMPLATES ==
    << Template("README.md", <<"assignment_name", "due_date">>),
       Template("Main.java", <<"assignment_name", "assignment_description">>),
       Template("Test.java", <<"assignment_name">>),
       Template(".gitignore", <<>>) >>
JAVASCRIPT_TEMPLATES ==
    << Template("README.md", <<"assignment_name", "due_date">>),
       Template("package.json", <<"assignment_slug", "assignment_description">>),
       Template("index.js", <<"assignment_name", "assignment_description">>),
       Template("index.test.js", <<"assignment_name", "assignment_name">>),
       Template(".gitignore", <<>>) >>
CPP_TEMPLATES ==
    << Template("README.md", <<"assignment_name", "due_date">>),
       Template("main.cpp", <<"assignment_name", "assignment_description">>),
       Template("test.cpp", <<"assignment_name">>),
       Template(".gitignore", <<>>) >>

L_python == <<"p", "y", "t", "h", "o", "n">>
L_py == <<"p", "y">>
L_java == <<"j", "a", "v", "a">>
L_javascript == <<"j", "a", "v", "a", "s", "c", "r", "i", "p", "t">>
L_js == <<"j", "s">>
L_node == <<"n", "o", "d", "e">>
L_cpp == <<"c", "p", "p">>
L_cplusplus == <<"c", "+", "+">>

\* TEMPLATE_MAP, in the order of the dict
TEMPLATE_MAP ==
    << [key |-> L_python, template |-> PYTHON_TEMPLATES],
       [key |-> L_py, template |-> PYTHON_TEMPLATES],
       [key |-> L_java, template |-> JAVA_TEMPLATES],
       [key |-> L_javascript, template |-> JAVASCRIPT_TEMPLATES],
       [key |-> L_js, template |-> JAVASCRIPT_TEMPLATES],
       [key |-> L_node, template |-> JAVASCRIPT_TEMPLATES],
       [key |-> L_cpp, template |-> CPP_TEMPLATES],
       [key |-> L_cplusplus, template |-> CPP_TEMPLATES] >>

\* The keys left in the order of the dict
SortByLenDesc_unsorted(s) == s

\* sorted(TEMPLATE_MAP.keys(), key=len, reverse=True) (stable)
RECURSIVE InsertByLenDesc(_, _)
InsertByLenDesc(sorted, x) ==
    IF sorted = <<>> THEN <<x>>
    ELSE IF Len(Head(sorted).key) < Len(x.key) THEN <<x>> \o sorted
    ELSE <<Head(sorted)>> \o InsertByLenDesc(Tail(sorted), x)

RECURSIVE SortByLenDesc(_)
SortByLenDesc(s) ==
    IF s = <<>> THEN <<>>
    ELSE InsertByLenDesc(SortByLenDesc(SubSeq(s, 1, Len(s) - 1)), s[Len(s)])

RECURSIVE FirstContained(_, _)
FirstContained(entries, language_lower) ==
    IF entries = <<>> THEN PYTHON_TEMPLATES
    ELSE IF Contains(language_lower, Head(entries).key) THEN Head(entries).template
    ELSE FirstContained(Tail(entries), language_lower)

\* The bundle kept from one invocation of generate_starter_files to the
\* next: the selector of the invocation before decides
get_template_for_language_of_last_call(language) ==
    LET kept == pc \in {"done", "second"} /\ Val(args).entry = "generate_starter_files"
        language_lower == ToLower(IF kept THEN Val(args).language ELSE language)
        exact == { i \in DOMAIN TEMPLATE_MAP : TEMPLATE_MAP[i].key = language_lower }
    IN IF exact # {} THEN TEMPLATE_MAP[CHOOSE i \in exact : TRUE].template
       ELSE FirstContained(SortByLenDesc(TEMPLATE_MAP), language_lower)

get_template_for_language(language) ==
    LET language_lower == ToLower(language)
        exact == { i \in DOMAIN TEMPLATE_MAP : TEMPLATE_MAP[i].key = language_lower }
    IN IF exact # {} THEN TEMPLATE_MAP[CHOOSE i \in exact : TRUE].template
       ELSE FirstContained(SortByLenDesc(TEMPLATE_MAP), language_lower)

\* files.keys()
Keys(files) == [i \in DOMAIN files |-> files[i].path]

\* files[path] = content: a new key goes to the end, a key already present
\* keeps its place and takes the new content
SetItem(files, path, content) ==
    IF \E i \in DOMAIN files : files[i].path = path
    THEN [i \in DOMAIN files |->
             IF files[i].path = path THEN [path |-> path, content |-> content] ELSE files[i]]
    ELSE Append(files, [path |-> path, content |-> content])

\* files.update(more)
RECURSIVE Update(_, _)
Update(files, more) ==
    IF more = <<>> THEN files
    ELSE Update(SetItem(files, Head(more).path, Head(more).content), Tail(more))

\* One rendered placeholder
Rendered(name, text) == [name |-> name, text |-> text]

\* content_template.format(**values)
Format(fields, values) == [i \in DOMAIN fields |-> Rendered(fields[i], values[fields[i]])]

\* The loop of extract_required_function_names: names starting with two
\* underscores and the three reserved words are dropped, a name is kept once
RECURSIVE FilterFunctionNames(_, _)
FilterFunctionNames(names, seen) ==
    IF names = <<>> THEN <<>>
    ELSE LET name == Head(names)
         IN IF StartsWith(name, <<"_", "_">>)
               \/ ToLower(name) \in { <<"s", "o", "l", "u", "t", "i", "o", "n">>,
                                      <<"p", "r", "i", "n", "t">>, <<"m", "a", "i", "n">> }
               \/ name \in seen
            THEN FilterFunctionNames(Tail(names), seen)
            ELSE <<name>> \o FilterFunctionNames(Tail(names), seen \cup {name})

extract_required_function_names(assignment_description) ==
    IF assignment_description = <<>> THEN <<>>
    ELSE FilterFunctionNames(FindAll(assignment_description, 1, 6), {})

F_maze_solvers == <<"m", "a", "z", "e", "_", "s", "o", "l", "v", "e", "r", "s", ".", "p", "y">>
F_maze_txt == <<"m", "a", "z", "e", ".", "t", "x", "t">>
F_report_md == <<"r", "e", "p", "o", "r", "t", ".", "m", "d">>
W_maze == <<"m", "a", "z", "e">>
W_report == <<"r", "e", "p", "o", "r", "t">>
MazeSolverPrefix == <<"m", "a", "z", "e", "_", "s", "o", "l", "v", "e", "r", "_">>
DefaultMazeFunctions ==
    << MazeSolverPrefix \o <<"o", "n", "e">>, MazeSolverPrefix \o <<"t", "w", "o">>,
       MazeSolverPrefix \o <<"t", "h", "r", "e", "e">> >>

\* Lines 549-558: the detected names kept for the stubs, or the three defaults
MazeFunctions(requested_functions) ==
    LET kept == Filter(requested_functions,
                       [n \in RangeOf(requested_functions) |->
                           StartsWith(n, MazeSolverPrefix) \/ n \in RangeOf(DefaultMazeFunctions)])
    IN IF kept = <<>> THEN DefaultMazeFunctions ELSE kept

\* Line 540: the languages that get assignment-specific files
SpecificFilesLanguage(language) == ToLower(language) \in {L_python, L_py}

\* Lines 560-573: maze_solvers.py, a header and one stub per function
MazeSolversContent(assignment_name, maze_functions) ==
    <<Rendered("assignment_name", assignment_name)>>
    \o [i \in DOMAIN maze_functions |-> Rendered("def", maze_functions[i])]

\* Line 547: the lower-cased filenames the description asks for
RequestedLower(assignment_description) ==
    { ToLower(f) : f \in RangeOf(extract_required_filenames(assignment_description)) }

\* One item when the condition holds, in the order the code stores them
ItemIf(condition, path, content) ==
    IF condition THEN <<[path |-> path, content |-> content]>> ELSE <<>>

build_assignment_specific_files(assignment_name, assignment_description, language) ==
    IF ~SpecificFilesLanguage(language) THEN <<>>
    ELSE ItemIf(F_maze_solvers \in RequestedLower(assignment_description),
                "maze_solvers.py",
                MazeSolversContent(
                    assignment_name,
                    MazeFunctions(extract_required_function_names(assignment_description))))
         \o ItemIf(\/ F_maze_txt \in RequestedLower(assignment_description)
                   \/ Contains(ToLower(assignment_description), W_maze),
                   "maze.txt", <<>>)
         \o ItemIf(\/ F_report_md \in RequestedLower(assignment_description)
                   \/ Contains(ToLower(assignment_description), W_report),
                   "Report.md", <<Rendered("assignment_name", assignment_name)>>)

\* Line 625: assignment_description[:200]
ShortDescriptionLimit == 200

\* Lines 637-643 with the description cut like the short one
AssignmentBrief_truncated(assignment_name, assignment_description, due_date) ==
    << Rendered("assignment_name", assignment_name),
       Rendered("assignment_description", Prefix(assignment_description, ShortDescriptionLimit)),
       Rendered("due_date", due_date) >>

\* Lines 637-643: the content of ASSIGNMENT.md
AssignmentBrief(assignment_name, assignment_description, due_date) ==
    << Rendered("assignment_name", assignment_name),
       Rendered("assignment_description", assignment_description),
       Rendered("due_date", due_date) >>

\* Lines 627-635: the loop over the templates of the bundle
RECURSIVE RenderTemplates(_, _, _, _)
RenderTemplates(template, values, assignment_description, short_description) ==
    IF template = <<>> THEN <<>>
    ELSE LET filepath == Head(template).path
             content ==
                 Format(Head(template).fields,
                        [values EXCEPT !.assignment_description =
                            IF filepath = "README.md" THEN assignment_description
                            ELSE short_description])
         IN Update(<<[path |-> filepath, content |-> content]>>,
                   RenderTemplates(Tail(template), values, assignment_description,
                                   short_description))

generate_starter_files(assignment_name, assignment_description, due_date, language, short_description) ==
    LET template == get_template_for_language(language)
        short == IF short_description = <<>>
                 THEN Prefix(assignment_description, ShortDescriptionLimit)
                 ELSE short_description
        values == [assignment_name |-> assignment_name,
                   assignment_description |-> assignment_description,
                   due_date |-> due_date,
                   assignment_slug |-> normalize_slug(assignment_name)]
        files == RenderTemplates(template, values, assignment_description, short)
        withBrief == SetItem(files, "ASSIGNMENT.md",
                             AssignmentBrief(assignment_name, assignment_description, due_date))
    IN Update(withBrief,
              build_assignment_specific_files(assignment_name, assignment_description, language))

-----------------------------------------------------------------------------
(* Inputs *)

T_token == <<"t", "o", "k">>
T_blank == <<" ">>
T_user == <<"u", "s", "e", "r">>
T_org == <<"o", "r", "g">>

\* Values of an environment variable: unset, blank, set
EnvValues == {None, Some(T_blank), Some(T_token)}

\* os.getenv(name, default)
getenv(e, name, default) == IF IsNone(e[name]) THEN default ELSE Val(e[name])

\* bool(value) of an optional string
Truthy(o) == ~IsNone(o) /\ Val(o) # <<>>

\* CanvasGitHubAgent.__init__, GitHubTools.__init__, NotionTools.__init__
Construct(e) ==
    LET _org == Strip(getenv(e, "GITHUB_ORG", <<>>))
    IN [github_username |-> e["GITHUB_USERNAME"],
        github_org |-> IF _org # <<>> /\ ~StartsWith(_org, <<"#">>) THEN _org ELSE <<>>,
        tools_github_username |-> e["GITHUB_USERNAME"],
        tools_github_org |-> getenv(e, "GITHUB_ORG", <<>>),
        notion_token |-> e["NOTION_TOKEN"],
        parent_page_id |-> e["NOTION_PARENT_PAGE_ID"]]

\* validate_notion_config
validate_notion_config_token_only(e) ==
    IF Strip(getenv(e, "NOTION_TOKEN", <<>>)) = <<>> THEN <<"NOTION_TOKEN">> ELSE <<>>

validate_notion_config(e) ==
    (IF Strip(getenv(e, "NOTION_TOKEN", <<>>)) = <<>> THEN <<"NOTION_TOKEN">> ELSE <<>>)
    \o (IF Strip(getenv(e, "NOTION_PARENT_PAGE_ID", <<>>)) = <<>>
        THEN <<"NOTION_PARENT_PAGE_ID">> ELSE <<>>)

\* Assignments of the pipeline specification
SampleMaze ==
    [id |-> 1, name |-> <<"M", "a", "z", "e">>,
     description |-> Some(<<"<", "p", ">", "c", "o", "d", "e", " ", "m", "a", "z", "e", "_",
                            "s", "o", "l", "v", "e", "r", "s", ".", "p", "y", "<", "/", "p", ">">>),
     due_at |-> DueNaive(1), created_at |-> Some(<<"2">>)]
SampleEssay ==
    [id |-> 2, name |-> <<"E", "s", "s", "a", "y">>,
     description |-> Some(<<"w", "r", "i", "t", "e", " ", "a", " ", "r", "e", "p", "o", "r", "t">>),
     due_at |-> DueAbsent, created_at |-> None]
SampleQuiz ==
    [id |-> 3, name |-> <<"Q", "u", "i", "z">>, description |-> None,
     due_at |-> DueAware(1), created_at |-> Some(<<"1", "2">>)]
SampleHW ==
    [id |-> 4, name |-> <<"H", "W">>, description |-> Some(<<>>),
     due_at |-> DueBad, created_at |-> Some(<<"2">>)]

SampleAssignments == {SampleMaze, SampleEssay, SampleQuiz, SampleHW}

SeqsUpTo(S, n) == UNION { [1..k -> S] : k \in 0..n }

\* Listings the course service may return in the pipeline specification
RunListings == SeqsUpTo(SampleAssignments, MaxRunAssignments)

\* Listings of the fetch specification: every due and creation timestamp
CreatedValues == {None, Some(<<"1", "2">>), Some(<<"2">>)}
FetchAssignments ==
    { [id |-> 1, name |-> <<"H", "W">>, description |-> Some(<<>>),
       due_at |-> d, created_at |-> c] : d \in DueValues, c \in CreatedValues }
FetchListings == SeqsUpTo(FetchAssignments, MaxAssignments)

\* argparse: --language choices
Languages == {L_python, L_java, L_javascript, L_cpp}

\* --assignment-id: absent, 0 (read as absent by the truth tests), an identifier
\* of the sample assignments, another identifier
AssignmentIds == {None, Some(0), Some(1), Some(2)}
TypeArgs == {None, Some("coding"), Some("writing"), Some("essay")}

\* Records the stubs of the tests return
MockRepositoryResult ==
    [repository |-> [name |-> <<"h", "w">>, owner |-> Some(T_user)],
     files_created |-> <<"README.md">>,
     assignment |-> SampleHW]
MockPageResult == [page |-> [url |-> "https://notion.so/example"], assignment |-> SampleHW]

\* test_run_routes_coding_to_github, test_run_routes_writing_to_notion
Mocks ==
    { [repo_task |-> Some(MockRepositoryResult), page_task |-> None],
      [repo_task |-> None, page_task |-> Some(MockPageResult)] }

\* Arguments of run(); assignment_id is not read when assignment_data is given
RunArgs ==
    { a \in [entry : {"run"}, assignment_id : AssignmentIds, language : Languages,
             assignment_type : TypeArgs, confirm_assignment_type : BOOLEAN,
             assignment_data : {None} \cup { Some(s) : s \in SampleAssignments }] :
        IsNone(a.assignment_data) \/ IsNone(a.assignment_id) }

FetchArgs ==
    [entry : {"fetch"}, assignment_id : {None}, language : {L_python},
     assignment_type : {None}, confirm_assignment_type : {FALSE},
     assignment_data : {None}]

\* list_courses takes no argument
ListCoursesArgs ==
    [entry : {"list_courses"}, assignment_id : {None}, language : {L_python},
     assignment_type : {None}, confirm_assignment_type : {FALSE},
     assignment_data : {None}]

\* What the course service may list
CourseListings == { <<[id |-> 1, name |-> <<"C", "S">>]>> }

-----------------------------------------------------------------------------
(* Initial states: the environment is chosen and the agent constructed *)

NoOutcome == [kind |-> "none", error |-> "", value |-> None]
Returned(v) == [kind |-> "returned", error |-> "", value |-> v]
Raised(e) == [kind |-> "raised", error |-> e, value |-> None]

InitWith(e, m) ==
    /\ env = e
    /\ agent = Construct(e)
    /\ mock = m
    /\ pc = "idle"
    /\ args = None
    /\ assignments = <<>>
    /\ listed = -1
    /\ assignment = None
    /\ assignment_type = None
    /\ prompts = 0
    /\ inferCount = 0
    /\ taskCalls = [repository |-> 0, page |-> 0]
    /\ result = None
    /\ repo = None
    /\ starter_files = <<>>
    /\ fileIdx = 0
    /\ success = TRUE
    /\ uploadLog = <<>>
    /\ uploadFailed = FALSE
    /\ ret = None
    /\ exc = None
    /\ sessions = [canvas |-> 0, github |-> 0]
    /\ calls = [listing |-> 0, list_tools |-> 0, create_repository |-> 0, create_page |-> 0]
    /\ printed = {}
    /\ outcome = NoOutcome

Init ==
    \E token \in EnvValues, parent \in EnvValues, m \in {None} \cup { Some(x) : x \in Mocks } :
        InitWith([NOTION_TOKEN |-> token, NOTION_PARENT_PAGE_ID |-> parent,
                  GITHUB_ORG |-> None, GITHUB_USERNAME |-> Some(T_user)], m)

\* Values of GITHUB_ORG: unset, empty, a name, the name padded with white
\* space, a blank, a value starting with "#"
OrgValues ==
    { None, Some(<<>>), Some(T_org), Some(<<" ">> \o T_org \o <<" ">>), Some(T_blank),
      Some(<<"#">> \o T_org) }

\* The agent constructed under each value of GITHUB_ORG and GITHUB_USERNAME
InitOwners ==
    \E org \in OrgValues, username \in {None, Some(T_user)},
       m \in {None} \cup { Some(x) : x \in Mocks } :
        InitWith([NOTION_TOKEN |-> Some(T_token), NOTION_PARENT_PAGE_ID |-> Some(T_token),
                  GITHUB_ORG |-> org, GITHUB_USERNAME |-> username], m)

InitFetch ==
    InitWith([NOTION_TOKEN |-> Some(T_token), NOTION_PARENT_PAGE_ID |-> Some(T_token),
              GITHUB_ORG |-> None, GITHUB_USERNAME |-> Some(T_user)], None)

-----------------------------------------------------------------------------
(* Entry points *)

A == Val(args)

\* The exception leaves the entry point
Propagate(e) ==
    /\ pc' = "done"
    /\ outcome' = Raised(e)

\* The entry point returns v
Finish(v) ==
    /\ pc' = "done"
    /\ outcome' = Returned(v)

\* run(): line 294, assignment_data or await fetch_assignment_task(...)
Run ==
    /\ pc = "idle"
    /\ \E a \in RunArgs :
          /\ args' = Some(a)
          /\ IF ~IsNone(a.assignment_data)
             THEN /\ assignment' = a.assignment_data
                  /\ pc' = "fetched"
             ELSE /\ assignment' = assignment
                  /\ pc' = "canvas_enter"
    /\ UNCHANGED <<cfgVars, fetchVars, assignment_type, prompts, inferCount, taskCalls,
                   result, repoVars, ioVars, endVars>>

\* fetch_assignment_task called on its own (cli.py, line 62)
FetchAssignmentTask ==
    /\ pc = "idle"
    /\ \E a \in FetchArgs : args' = Some(a)
    /\ pc' = "canvas_enter"
    /\ UNCHANGED <<cfgVars, fetchVars, runVars, repoVars, ioVars, endVars>>

-----------------------------------------------------------------------------
(* Sessions: get_canvas_session and get_github_session *)

\* The session left open by the operation that opened it
CloseSession_leaked(open, raised) == open

\* The session kept open when the body of the async with raised
CloseSession_unless_raised(open, raised) == IF raised THEN open ELSE open - 1

\* async with stdio_client(...), async with ClientSession(...): leaving the
\* body, by return or by exception, tears the session down
CloseSession(open, raised) == open - 1

-----------------------------------------------------------------------------
(* CanvasTools.get_course_assignments *)

\* async with self.get_canvas_session(): the session opens, or the failure
\* to open it leaves the entry point
GetCourseAssignments_Enter ==
    /\ pc = "canvas_enter"
    /\ \E opened \in BOOLEAN :
          IF opened
          THEN /\ sessions' = [sessions EXCEPT !.canvas = @ + 1]
               /\ pc' = "canvas_call"
               /\ UNCHANGED outcome
          ELSE /\ Propagate("SessionError")
               /\ UNCHANGED sessions
    /\ UNCHANGED <<args, cfgVars, fetchVars, runVars, repoVars, ret, exc, calls, printed>>

\* session.call_tool("get_course_assignments") and the decoding of its
\* result: a listing, no content (the empty list), or an exception
GetCourseAssignments_Call(Listings) ==
    /\ pc = "canvas_call"
    /\ calls' = [calls EXCEPT !.listing = @ + 1]
    /\ \E kind \in {"content", "empty", "error"} :
          IF kind = "content"
          THEN /\ \E l \in Listings : ret' = l
               /\ UNCHANGED exc
          ELSE IF kind = "empty"
          THEN /\ ret' = <<>>
               /\ UNCHANGED exc
          ELSE /\ exc' = Some("ToolError")
               /\ UNCHANGED ret
    /\ pc' = "canvas_exit"
    /\ UNCHANGED <<args, cfgVars, fetchVars, runVars, repoVars, sessions, endVars>>

\* The session closes on the way out, whether by return or by exception
GetCourseAssignments_Exit ==
    /\ pc = "canvas_exit"
    /\ sessions' = [sessions EXCEPT !.canvas = CloseSession(@, ~IsNone(exc))]
    /\ IF ~IsNone(exc)
       THEN /\ Propagate(Val(exc))
            /\ exc' = None
            /\ UNCHANGED <<assignments, listed>>
       ELSE /\ assignments' = ret
            /\ listed' = Len(ret)
            /\ pc' = "select"
            /\ UNCHANGED <<exc, outcome>>
    /\ UNCHANGED <<args, cfgVars, runVars, repoVars, ret, calls, printed>>

-----------------------------------------------------------------------------
(* list_courses (main.py) over CanvasTools.list_courses *)

MsgNoCourses == "No courses found. Please check your Canvas API token."

\* list_courses(): the helper behind the list-courses command
ListCourses ==
    /\ pc = "idle"
    /\ \E a \in ListCoursesArgs : args' = Some(a)
    /\ pc' = "courses_enter"
    /\ UNCHANGED <<cfgVars, fetchVars, runVars, repoVars, ioVars, endVars>>

\* async with self.get_canvas_session()
ListCourses_Enter ==
    /\ pc = "courses_enter"
    /\ \E opened \in BOOLEAN :
          IF opened
          THEN /\ sessions' = [sessions EXCEPT !.canvas = @ + 1]
               /\ pc' = "courses_call"
               /\ UNCHANGED outcome
          ELSE /\ Propagate("SessionError")
               /\ UNCHANGED sessions
    /\ UNCHANGED <<args, cfgVars, fetchVars, runVars, repoVars, ret, exc, calls, printed>>

\* session.call_tool("get_courses"): courses, no content, or an exception
ListCourses_Call ==
    /\ pc = "courses_call"
    /\ \E kind \in {"content", "empty", "error"} :
          IF kind = "content"
          THEN /\ \E l \in CourseListings : ret' = l
               /\ UNCHANGED exc
          ELSE IF kind = "empty"
          THEN /\ ret' = <<>>
               /\ UNCHANGED exc
          ELSE /\ exc' = Some("ToolError")
               /\ UNCHANGED ret
    /\ pc' = "courses_exit"
    /\ UNCHANGED <<args, cfgVars, fetchVars, runVars, repoVars, sessions, calls, endVars>>

\* The session closes; the helper prints the courses and returns nothing
ListCourses_Exit ==
    /\ pc = "courses_exit"
    /\ sessions' = [sessions EXCEPT !.canvas = CloseSession(@, ~IsNone(exc))]
    /\ IF ~IsNone(exc)
       THEN /\ Propagate(Val(exc))
            /\ exc' = None
            /\ UNCHANGED printed
       ELSE /\ printed' = IF ret = <<>> THEN printed \cup {MsgNoCourses} ELSE printed
            /\ Finish(None)
            /\ UNCHANGED exc
    /\ UNCHANGED <<args, cfgVars, fetchVars, runVars, repoVars, ret, calls>>

-----------------------------------------------------------------------------
(* fetch_assignment_task, after the listing *)

\* Line 138: if assignment_id
fetch_assignment_task(listing, assignment_id) ==
    IF ~IsNone(assignment_id) /\ Val(assignment_id) # 0
    THEN Return(FirstWithId(listing, Val(assignment_id)))
    ELSE NextUpcoming(listing)

\* The listing is local to the fetch: run keeps the record alone
FetchSelect ==
    /\ pc = "select"
    /\ LET r == fetch_assignment_task(assignments, A.assignment_id)
       IN IF r.raised
          THEN /\ Propagate(r.error)
               /\ UNCHANGED <<assignment, assignments>>
          ELSE IF A.entry = "fetch"
          THEN /\ Finish(r.value)
               /\ UNCHANGED <<assignment, assignments>>
          ELSE /\ assignment' = r.value
               /\ assignments' = <<>>
               /\ pc' = "fetched"
               /\ UNCHANGED outcome
    /\ UNCHANGED <<args, cfgVars, listed, assignment_type, prompts, inferCount, taskCalls,
                   result, repoVars, ioVars, printed>>

-----------------------------------------------------------------------------
(* run(): lines 296-359 *)

MsgNoAssignment == "No assignment found!"
MsgRepoFailed == "Repository creation failed. See errors above."
MsgNotionIncomplete == "Notion configuration is incomplete for writing assignments."
MsgPageFailed == "Notion page creation failed. See errors above."
MsgCreateRepoFailed == "Failed to create repository. Possible causes:"
MsgCreatePageFailed == "Failed to create Notion page. Possible causes:"
MsgFilesFailed == "Some files failed to upload."

\* Lines 296-302: no assignment ends the run; the description is sliced for
\* the progress line, which a null description does not support
RunCheckAssignment ==
    /\ pc = "fetched"
    /\ IF IsNone(assignment)
       THEN /\ printed' = printed \cup {MsgNoAssignment}
            /\ Finish(None)
       ELSE IF IsNone(Val(assignment).description)
       THEN /\ Propagate("TypeError")
            /\ UNCHANGED printed
       ELSE /\ pc' = "classify"
            /\ UNCHANGED <<printed, outcome>>
    /\ UNCHANGED <<args, cfgVars, fetchVars, runVars, repoVars, ioVars>>

ValidTypes == {"coding", "writing"}

\* Line 305 without the test of the supplied value
NeedsInference_absent_only(t) == IsNone(t)

\* Line 305: if assignment_type not in {"coding", "writing"}
NeedsInference(t) == IsNone(t) \/ Val(t) \notin ValidTypes

\* Lines 305-306
ClassifyType ==
    /\ pc = "classify"
    /\ IF NeedsInference(A.assignment_type)
       THEN /\ assignment_type' = Some(infer_assignment_type(Val(assignment)))
            /\ inferCount' = inferCount + 1
       ELSE /\ assignment_type' = A.assignment_type
            /\ UNCHANGED inferCount
    /\ pc' = IF A.confirm_assignment_type THEN "confirm" ELSE "branch"
    /\ UNCHANGED <<args, cfgVars, fetchVars, assignment, prompts, taskCalls, result,
                   repoVars, ioVars, endVars>>

Responses == {"", "c", "coding", "w", "writing", "?"}

\* confirm_assignment_type: one answer to the prompt
Confirm ==
    /\ pc = "confirm"
    /\ \E response \in Responses :
          IF response = ""
          THEN /\ pc' = "branch"
               /\ prompts' = 0
               /\ UNCHANGED assignment_type
          ELSE IF response \in {"c", "coding"}
          THEN /\ pc' = "branch"
               /\ prompts' = 0
               /\ assignment_type' = Some("coding")
          ELSE IF response \in {"w", "writing"}
          THEN /\ pc' = "branch"
               /\ prompts' = 0
               /\ assignment_type' = Some("writing")
          ELSE /\ prompts < MaxPrompts
               /\ prompts' = prompts + 1
               /\ UNCHANGED <<pc, assignment_type>>
    /\ UNCHANGED <<args, cfgVars, fetchVars, assignment, inferCount, taskCalls, result,
                   repoVars, ioVars, endVars>>

\* Line 313: if assignment_type == "coding"
IsCodingBranch(t) == t = "coding"

\* Lines 313-316 and 336-350: the branch, and the configuration check of the
\* writing branch
Branch ==
    /\ pc = "branch"
    /\ IF IsCodingBranch(Val(assignment_type))
       THEN /\ pc' = "repo_task"
            /\ taskCalls' = [taskCalls EXCEPT !.repository = @ + 1]
            /\ UNCHANGED endVars
       ELSE IF validate_notion_config(env) # <<>>
       THEN /\ printed' = printed \cup {MsgNotionIncomplete}
            /\ Finish(None)
            /\ UNCHANGED taskCalls
       ELSE /\ pc' = "page_task"
            /\ taskCalls' = [taskCalls EXCEPT !.page = @ + 1]
            /\ UNCHANGED endVars
    /\ UNCHANGED <<args, cfgVars, fetchVars, assignment, assignment_type, prompts, inferCount,
                   result, repoVars, ioVars>>

\* The tasks as the tests replace them: AsyncMock(return_value=...)
MockedRepositoryTask ==
    /\ pc = "repo_task"
    /\ ~IsNone(mock)
    /\ result' = Val(mock).repo_task
    /\ pc' = "repo_result"
    /\ UNCHANGED <<args, cfgVars, fetchVars, selVars, repoVars, ioVars, endVars>>

MockedNotionPageTask ==
    /\ pc = "page_task"
    /\ ~IsNone(mock)
    /\ result' = Val(mock).page_task
    /\ pc' = "page_result"
    /\ UNCHANGED <<args, cfgVars, fetchVars, selVars, repoVars, ioVars, endVars>>

-----------------------------------------------------------------------------
(* create_repository_task and GitHubTools *)

\* assignment.get("name", "Assignment")
AssignmentName == Val(assignment).name

\* Line 195
RepoName == normalize_slug(AssignmentName)

\* github_tools.py line 72: the owner the repository is requested under
CreateOwner ==
    IF agent.tools_github_org # <<>> THEN Some(agent.tools_github_org)
    ELSE agent.tools_github_username

\* main.py line 225: the owner the files are uploaded to
UploadOwner ==
    IF agent.github_org # <<>> THEN Some(agent.github_org) ELSE agent.github_username

\* create_repository: async with self.get_github_session()
CreateRepository_Enter ==
    /\ pc = "repo_task"
    /\ IsNone(mock)
    /\ \E opened \in BOOLEAN :
          IF opened
          THEN /\ sessions' = [sessions EXCEPT !.github = @ + 1]
               /\ pc' = "repo_list_tools"
               /\ UNCHANGED outcome
          ELSE /\ Propagate("SessionError")
               /\ UNCHANGED sessions
    /\ UNCHANGED <<args, cfgVars, fetchVars, runVars, repoVars, ret, exc, calls, printed>>

\* Line 58: session.list_tools(), outside the try
CreateRepository_ListTools ==
    /\ pc = "repo_list_tools"
    /\ calls' = [calls EXCEPT !.list_tools = @ + 1]
    /\ \E listedTools \in BOOLEAN :
          IF listedTools
          THEN /\ pc' = "repo_call"
               /\ UNCHANGED exc
          ELSE /\ pc' = "repo_exit"
               /\ exc' = Some("ToolError")
    /\ UNCHANGED <<args, cfgVars, fetchVars, runVars, repoVars, ret, sessions, endVars>>

\* Lines 64-81: the call returns a record, or no content, or raises (caught:
\* the function returns None)
CreateRepository_Call ==
    /\ pc = "repo_call"
    /\ calls' = [calls EXCEPT !.create_repository = @ + 1]
    /\ \E kind \in {"record", "none", "error"} :
          ret' = IF kind = "record"
                 THEN Some([name |-> RepoName, owner |-> CreateOwner])
                 ELSE None
    /\ pc' = "repo_exit"
    /\ UNCHANGED <<args, cfgVars, fetchVars, runVars, repoVars, exc, sessions, endVars>>

CreateRepository_Exit ==
    /\ pc = "repo_exit"
    /\ sessions' = [sessions EXCEPT !.github = CloseSession(@, ~IsNone(exc))]
    /\ IF ~IsNone(exc)
       THEN /\ Propagate(Val(exc))
            /\ exc' = None
            /\ UNCHANGED repo
       ELSE /\ repo' = ret
            /\ pc' = "repo_created"
            /\ UNCHANGED <<exc, outcome>>
    /\ UNCHANGED <<args, cfgVars, fetchVars, runVars, starter_files, fileIdx, success,
                   uploadLog, uploadFailed, ret, calls, printed>>

\* Line 206 with the guard on the repository left out
RepositoryMissing_never(r) == FALSE

\* Line 206: if not repo
RepositoryMissing(r) == IsNone(r)

\* Lines 206-231 when the task runs on assignment a for a language, files
\* being the FileSet generated for them: no repository ends the task;
\* otherwise create_directory_structure starts on the paths of the FileSet
AfterCreate(a, language, files) ==
    /\ pc = "repo_created"
    /\ a = Val(assignment)
    /\ language = A.language
    /\ IF RepositoryMissing(repo)
       THEN /\ printed' = printed \cup {MsgCreateRepoFailed}
            /\ result' = None
            /\ pc' = "repo_result"
            /\ UNCHANGED <<starter_files, fileIdx, success>>
       ELSE /\ starter_files' = Keys(files)
            /\ fileIdx' = 1
            /\ success' = TRUE
            /\ pc' = "file_next"
            /\ UNCHANGED <<printed, result>>
    /\ UNCHANGED <<args, cfgVars, fetchVars, selVars, repo, uploadLog, uploadFailed,
                   ioVars, outcome>>

\* Lines 189-192 and 216-222: the FileSet is generated from the Markdown
\* description, with the tag-stripped description cut short for the code files
CreateRepositoryTask_AfterCreate ==
    \E a \in SampleAssignments, language \in Languages :
        AfterCreate(a, language,
                    generate_starter_files(
                        a.name, html_to_markdown(a.description), a.due_at, language,
                        Prefix(strip_html(a.description), ShortDescriptionLimit)))

\* create_file: async with self.get_github_session(), outside the try
CreateFile_Enter ==
    /\ pc = "file_next"
    /\ fileIdx <= Len(starter_files)
    /\ \E opened \in BOOLEAN :
          IF opened
          THEN /\ sessions' = [sessions EXCEPT !.github = @ + 1]
               /\ pc' = "file_call"
               /\ UNCHANGED outcome
          ELSE /\ Propagate("SessionError")
               /\ UNCHANGED sessions
    /\ UNCHANGED <<args, cfgVars, fetchVars, runVars, repoVars, ret, exc, calls, printed>>

\* Lines 107-122: True when the call returns, False when it raises
CreateFile_Call ==
    /\ pc = "file_call"
    /\ uploadLog' = Append(uploadLog, [path |-> starter_files[fileIdx], owner |-> UploadOwner])
    /\ \E returned \in BOOLEAN :
          /\ ret' = Some(returned)
          /\ uploadFailed' = (uploadFailed \/ ~returned)
    /\ pc' = "file_exit"
    /\ UNCHANGED <<args, cfgVars, fetchVars, runVars, repo, starter_files, fileIdx, success,
                   exc, sessions, calls, endVars>>

\* success = result: the flag of the last entry alone
Accumulate_last_only(flag, uploaded) == uploaded

\* success = success and result
Accumulate(flag, uploaded) == flag /\ uploaded

\* The loop staying on an entry whose upload failed
NextIndex_retry(idx, uploaded) == IF uploaded THEN idx + 1 ELSE idx

\* for path, content in files.items(): the next entry, whatever the result
NextIndex(idx, uploaded) == idx + 1

\* The session closes, and the loop of create_directory_structure moves on
CreateFile_Exit ==
    /\ pc = "file_exit"
    /\ sessions' = [sessions EXCEPT !.github = CloseSession(@, FALSE)]
    /\ success' = Accumulate(success, Val(ret))
    /\ fileIdx' = NextIndex(fileIdx, Val(ret))
    /\ pc' = "file_next"
    /\ UNCHANGED <<args, cfgVars, fetchVars, runVars, repo, starter_files, uploadLog,
                   uploadFailed, ret, exc, calls, endVars>>

\* Lines 233-242: the loop is over and the task returns its record
CreateRepositoryTask_Return ==
    /\ pc = "file_next"
    /\ fileIdx > Len(starter_files)
    /\ printed' = IF success THEN printed ELSE printed \cup {MsgFilesFailed}
    /\ result' = Some([repository |-> Val(repo),
                       assignment |-> Val(assignment),
                       files_created |-> starter_files,
                       files_uploaded |-> success])
    /\ pc' = "repo_result"
    /\ UNCHANGED <<args, cfgVars, fetchVars, selVars, repoVars, ioVars, outcome>>

HasKey(r, k) == k \in DOMAIN r

\* dict.get(key, default)
Get(r, k, default) == IF k \in DOMAIN r THEN r[k] ELSE default

\* result["destination"] = destination
WithDestination(r, destination) ==
    [k \in DOMAIN r \cup {"destination"} |-> IF k = "destination" THEN destination ELSE r[k]]

MsgFilesNotUploaded == "Repository created but files failed to upload."

\* Line 318 with the upload flag required as well
RepositoryTaskFailed_without_flag(r) ==
    IsNone(r) \/ ~HasKey(Val(r), "repository") \/ ~HasKey(Val(r), "files_uploaded")

\* Line 318: if not result or "repository" not in result
RepositoryTaskFailed(r) == IsNone(r) \/ ~HasKey(Val(r), "repository")

\* Line 335
RepositoryDestination == "github"

\* run(), lines 318-335
RunRepositoryResult ==
    /\ pc = "repo_result"
    /\ IF RepositoryTaskFailed(result)
       THEN /\ printed' = printed \cup {MsgRepoFailed}
            /\ Finish(None)
       ELSE /\ printed' = IF Get(Val(result), "files_uploaded", FALSE) THEN printed
                          ELSE printed \cup {MsgFilesNotUploaded}
            /\ Finish(Some(WithDestination(Val(result), RepositoryDestination)))
    /\ UNCHANGED <<args, cfgVars, fetchVars, runVars, repoVars, ioVars>>

-----------------------------------------------------------------------------
(* create_notion_page_task and NotionTools *)

\* _create_assignment_page_sync, line 25: the guard on the stored credentials
PageGuard == ~Truthy(agent.notion_token) \/ ~Truthy(agent.parent_page_id)

\* create_notion_page_task with create_assignment_page: the guard, then one
\* POST whose failure is caught and gives None
CreateNotionPageTask ==
    /\ pc = "page_task"
    /\ IsNone(mock)
    /\ IF PageGuard
       THEN /\ result' = None
            /\ printed' = printed \cup {MsgCreatePageFailed}
            /\ UNCHANGED calls
       ELSE /\ calls' = [calls EXCEPT !.create_page = @ + 1]
            /\ \E posted \in BOOLEAN :
                  IF posted
                  THEN /\ result' = Some([page |-> [url |-> "https://notion.so/page"],
                                          assignment |-> Val(assignment)])
                       /\ UNCHANGED printed
                  ELSE /\ result' = None
                       /\ printed' = printed \cup {MsgCreatePageFailed}
    /\ pc' = "page_result"
    /\ UNCHANGED <<args, cfgVars, fetchVars, selVars, repoVars, ret, exc, sessions, outcome>>

\* Line 352: if not result or "page" not in result
PageTaskFailed(r) == IsNone(r) \/ ~HasKey(Val(r), "page")

\* Line 359 with the label of the other branch
PageDestination_github == "github"

\* Line 359
PageDestination == "notion"

\* run(), lines 352-359
RunPageResult ==
    /\ pc = "page_result"
    /\ IF PageTaskFailed(result)
       THEN /\ printed' = printed \cup {MsgPageFailed}
            /\ Finish(None)
       ELSE /\ Finish(Some(WithDestination(Val(result), PageDestination)))
            /\ UNCHANGED printed
    /\ UNCHANGED <<args, cfgVars, fetchVars, runVars, repoVars, ioVars>>

-----------------------------------------------------------------------------
(* Specifications *)

Next ==
    \/ Run
    \/ GetCourseAssignments_Enter
    \/ GetCourseAssignments_Call(RunListings)
    \/ GetCourseAssignments_Exit
    \/ FetchSelect
    \/ RunCheckAssignment
    \/ ClassifyType
    \/ Confirm
    \/ Branch
    \/ MockedRepositoryTask
    \/ MockedNotionPageTask
    \/ CreateRepository_Enter
    \/ CreateRepository_ListTools
    \/ CreateRepository_Call
    \/ CreateRepository_Exit
    \/ CreateRepositoryTask_AfterCreate
    \/ CreateFile_Enter
    \/ CreateFile_Call
    \/ CreateFile_Exit
    \/ CreateRepositoryTask_Return
    \/ RunRepositoryResult
    \/ CreateNotionPageTask
    \/ RunPageResult
    \/ ListCourses
    \/ ListCourses_Enter
    \/ ListCourses_Call
    \/ ListCourses_Exit

Spec == Init /\ [][Next]_vars

\* The pipeline under every setting of the repository owner
SpecOwners == InitOwners /\ [][Next]_vars

NextFetch ==
    \/ FetchAssignmentTask
    \/ GetCourseAssignments_Enter
    \/ GetCourseAssignments_Call(FetchListings)
    \/ GetCourseAssignments_Exit
    \/ FetchSelect

SpecFetch == InitFetch /\ [][NextFetch]_vars

-----------------------------------------------------------------------------
(* The functions of the Slug Normalizer, the Type Inferrer and the          *)
(* Starter-File Generator, each called once on an input and its value kept  *)
(* in ret.                                                                   *)

\* One call: the input is kept in args, the value returned in ret
Call(input, value) ==
    /\ pc = "idle"
    /\ args' = Some(input)
    /\ ret' = Some(value)
    /\ pc' = "done"
    /\ UNCHANGED <<cfgVars, fetchVars, runVars, repoVars, exc, sessions, calls, endVars>>

\* Names given to normalize_slug: every string of at most MaxSlugLen
\* characters over a lower-case letter, an upper-case letter, a digit, a
\* hyphen, a space and a punctuation mark
SlugInputs == SeqsUpTo({"a", "Z", "7", "-", " ", "!"}, MaxSlugLen)

NormalizeSlug ==
    /\ pc = "idle"
    /\ \E name \in SlugInputs :
          /\ args' = Some([entry |-> "normalize_slug", name |-> name])
          /\ ret' = Some(normalize_slug(name))
    /\ pc' = "slug"
    /\ UNCHANGED <<cfgVars, fetchVars, runVars, repoVars, exc, sessions, calls, endVars>>

\* normalize_slug applied to its own value; the second value is kept in result
NormalizeSlugAgain ==
    /\ pc = "slug"
    /\ result' = Some(normalize_slug(Val(ret)))
    /\ pc' = "done"
    /\ UNCHANGED <<args, cfgVars, fetchVars, selVars, repoVars, ioVars, endVars>>

\* Assignments given to infer_assignment_type
InferInputs ==
    { [name |-> n, description |-> d] :
        n \in { <<>>, <<"H", "W">>, <<"E", "s", "s", "a", "y">>, <<"a", "n", "n", "o", "t", "a", "t", "e", "d">>, <<"J", "a", "v", "a", "S", "c", "r", "i", "p", "t", " ", "A", "P", "I">> },
        d \in { None, Some(<<>>), Some(<<"<", "p", ">", "w", "r", "i", "t", "e", " ", "a", " ", "r", "e", "p", "o", "r", "t", "<", "/", "p", ">">>), Some(<<"b", "i", "b", "l", "i", "o", "g", "r", "a", "p", "h", "y", " ", "d", "r", "a", "f", "t">>),
                Some(<<"<", "b", ">", "e", "s", "<", "/", "b", ">", "s", "a", "y", " ", "o", "n", " ", "g", "i", "t">>), Some(<<"P", "R", "O", "G", "R", "A", "M", "M", "I", "N", "G", " ", "p", "a", "p", "e", "r", ",", " ", "t", "h", "e", "s", "i", "s">>),
                Some(<<"<", "c", "o", "d", "e", ">">>), Some(<<"s", "u", "m", "m", "a", "r", "y", " ", "p", "a", "p", "e", "r", ":", " ", "r", "u", "n", " ", "t", "e", "s", "t">>) } }

InferAssignmentType ==
    \E a \in InferInputs :
        Call([entry |-> "infer_assignment_type", assignment |-> a], infer_assignment_type(a))

\* Language selectors given to get_template_for_language: the aliases in
\* either case, selectors that contain one or several aliases, selectors that
\* contain none
LanguageInputs ==
    { <<"p", "y", "t", "h", "o", "n">>, <<"P", "y", "t", "h", "o", "n">>, <<"P", "Y">>, <<"j", "a", "v", "a">>, <<"J", "A", "V", "A">>, <<"j", "a", "v", "a", "s", "c", "r", "i", "p", "t">>, <<"j", "s">>, <<"n", "o", "d", "e">>, <<"c", "p", "p">>,
      <<"c", "+", "+">>, <<"C", "+", "+", "1", "7">>, <<"j", "a", "v", "a", "s", "c", "r", "i", "p", "t", "2">>, <<"M", "y", "J", "a", "v", "a", "S", "c", "r", "i", "p", "t">>, <<"n", "o", "d", "e", "j", "s">>, <<"j", "a", "v", "a", "8">>, <<"p", "y", "t", "h", "o", "n", "3">>,
      <<"n", "o", "d", "e", "j", "a", "v", "a">>, <<"p", "y", "j", "s">>, <<"j", "s", "p", "y">>, <<"t", "y", "p", "e", "s", "c", "r", "i", "p", "t">>, <<"r", "u", "s", "t">>, <<"g", "o", "l", "a", "n", "g">>, <<>> }

GetTemplateForLanguage ==
    \E language \in LanguageInputs :
        Call([entry |-> "get_template_for_language", language |-> language],
             get_template_for_language(language))

\* A description of one character more than the short description may have
LongDescription == [i \in 1..(ShortDescriptionLimit + 1) |-> "x"]

\* Arguments given to generate_starter_files: descriptions with and without
\* the triggers of the assignment-specific files and with and without
\* function names, selectors of every bundle, short descriptions absent,
\* short and long
StarterInputs ==
    { [entry |-> "generate_starter_files", assignment_name |-> <<"M", "a", "z", "e", " ", "H", "W">>,
       assignment_description |-> d, due_date |-> <<"2", "0", "2", "6", "-", "0", "1", "-", "0", "1">>, language |-> l,
       short_description |-> s] :
        d \in { <<>>, <<"p", "l", "a", "i", "n", " ", "t", "e", "x", "t">>, <<"s", "o", "l", "v", "e", " ", "t", "h", "e", " ", "m", "a", "z", "e">>, LongDescription,
                <<"W", "r", "i", "t", "e", " ", "m", "a", "z", "e", "_", "s", "o", "l", "v", "e", "r", "s", ".", "p", "y", " ", "a", "n", "d", " ", "R", "e", "p", "o", "r", "t", ".", "m", "d">>,
                <<"i", "m", "p", "l", "e", "m", "e", "n", "t", " ", "b", "f", "s", "(", "m", "a", "z", "e", ")", " ", "i", "n", " ", "m", "a", "z", "e", "_", "s", "o", "l", "v", "e", "r", "s", ".", "p", "y">>,
                <<"m", "a", "z", "e", "_", "s", "o", "l", "v", "e", "r", "_", "b", "f", "s", "(", "m", ")", " ", "a", "n", "d", " ", "m", "a", "z", "e", "_", "s", "o", "l", "v", "e", "r", "_", "d", "f", "s", "(", "m", ")", " ", "i", "n", " ", "m", "a", "z", "e", "_", "s", "o", "l", "v", "e", "r", "s", ".", "p", "y">>,
                <<"h", "e", "l", "p", "e", "r", "(", "x", ")", " ", "m", "a", "z", "e", "_", "s", "o", "l", "v", "e", "r", "_", "a", "(", "m", ")", " ", "m", "a", "z", "e", "_", "s", "o", "l", "v", "e", "r", "s", ".", "p", "y">> },
        l \in { <<"p", "y", "t", "h", "o", "n">>, <<"P", "y">>, <<"p", "y", "t", "h", "o", "n", "3">>, <<"j", "a", "v", "a">>, <<"M", "y", "J", "a", "v", "a", "S", "c", "r", "i", "p", "t">>, <<"c", "+", "+">>, <<"r", "u", "s", "t">> },
        s \in { <<>>, <<"s", "h", "o", "r", "t">>, LongDescription } }

GenerateStarterFiles ==
    \E input \in StarterInputs :
        Call(input,
             generate_starter_files(input.assignment_name, input.assignment_description,
                                    input.due_date, input.language, input.short_description))

\* The invocations repeated to compare their values: every assignment of
\* InferInputs and a few arguments of generate_starter_files
RepeatInputs ==
    { [entry |-> "infer_assignment_type", assignment |-> a] : a \in InferInputs }
    \cup { input \in StarterInputs :
               /\ input.language \in { <<"p", "y", "t", "h", "o", "n">>, <<"j", "a", "v", "a">> }
               /\ input.assignment_description
                      \in { <<"s", "o", "l", "v", "e", " ", "t", "h", "e", " ", "m", "a", "z", "e">>, <<"W", "r", "i", "t", "e", " ", "m", "a", "z", "e", "_", "s", "o", "l", "v", "e", "r", "s", ".", "p", "y", " ", "a", "n", "d", " ", "R", "e", "p", "o", "r", "t", ".", "m", "d">> }
               /\ input.short_description \in { <<>>, <<"s", "h", "o", "r", "t">> } }

\* The function an invocation names, applied to its arguments
Apply(input) ==
    IF input.entry = "infer_assignment_type" THEN infer_assignment_type(input.assignment)
    ELSE generate_starter_files(input.assignment_name, input.assignment_description,
                                input.due_date, input.language, input.short_description)

\* A second invocation of the function called first, on any arguments; the
\* first invocation and its value are kept in result
CallAfter(input, value) ==
    /\ pc = "done"
    /\ Val(args) \in RepeatInputs
    /\ input.entry = Val(args).entry
    /\ result' = Some([input |-> Val(args), value |-> Val(ret)])
    /\ args' = Some(input)
    /\ ret' = Some(value)
    /\ pc' = "second"
    /\ UNCHANGED <<cfgVars, fetchVars, selVars, repoVars, exc, sessions, calls, endVars>>

\* A third invocation, on the arguments of the first
CallSame(input, value) ==
    /\ pc = "second"
    /\ input = Val(result).input
    /\ args' = Some(input)
    /\ ret' = Some(value)
    /\ pc' = "third"
    /\ UNCHANGED <<cfgVars, fetchVars, runVars, repoVars, exc, sessions, calls, endVars>>

InvokeAgain == \E input \in RepeatInputs : CallAfter(input, Apply(input))

InvokeSame == \E input \in RepeatInputs : CallSame(input, Apply(input))

-----------------------------------------------------------------------------
(* NotionTools._create_assignment_page_sync: the payload of the POST *)

\* Lines 42 and 79: the slices [:2000]
NotionTextLimit == 2000

HeadingText == <<"A", "s", "s", "i", "g", "n", "m", "e", "n", "t", " ", "O", "v", "e", "r", "v", "i", "e", "w">>

DueLabel == <<"D", "u", "e", " ", "d", "a", "t", "e", ":", " ">>

Placeholder == <<"N", "o", " ", "d", "e", "s", "c", "r", "i", "p", "t", "i", "o", "n", " ", "p", "r", "o", "v", "i", "d", "e", "d", ".">>

\* A block of the page with the content of its one rich-text item
Block(type, content) == [object |-> "block", type |-> type, content |-> content]

\* Line 42: title[:2000]
PageTitle(title) == Prefix(title, NotionTextLimit)

\* The description passed on whole
PageDescription_uncut(description) ==
    IF description = <<>> THEN Placeholder ELSE description

\* Line 79: description[:2000] or "No description provided."
PageDescription(description) ==
    IF Prefix(description, NotionTextLimit) = <<>> THEN Placeholder
    ELSE Prefix(description, NotionTextLimit)

\* Lines 35-85: the title property and the children of the page
PagePayload(title, description, due_date) ==
    [title |-> PageTitle(title),
     children |-> << Block("heading_2", HeadingText),
                     Block("paragraph", DueLabel \o due_date),
                     Block("paragraph", PageDescription(description)) >>]

\* A text of n characters
TextOfLen(n) == [i \in 1..n |-> "x"]

\* Titles, descriptions and due dates given to create_assignment_page: empty,
\* short, of the limit and one longer; descriptions as create_notion_page_task
\* passes them (strip_html of the assignment description), blank ones included
PageInputs ==
    [entry : {"create_assignment_page"},
     title : { <<>>, <<"E", "s", "s", "a", "y">>, TextOfLen(NotionTextLimit), TextOfLen(NotionTextLimit + 1) },
     description : { <<>>, <<" ">>, <<"w", "r", "i", "t", "e", " ", "a", " ", "r", "e", "p", "o", "r", "t">>, strip_html(Some(<<"<", "p", ">", " ", "<", "/", "p", ">">>)),
                     strip_html(Some(<<"<", "p", ">", "e", "s", "s", "a", "y", "<", "/", "p", ">">>)), strip_html(None),
                     TextOfLen(NotionTextLimit - 1), TextOfLen(NotionTextLimit),
                     TextOfLen(NotionTextLimit + 1) },
     due_date : { <<"2", "0", "2", "6", "-", "0", "1", "-", "0", "1">>, <<"N", "o", " ", "d", "u", "e", " ", "d", "a", "t", "e">> }]

CreateAssignmentPage ==
    \E input \in PageInputs :
        Call(input, PagePayload(input.title, input.description, input.due_date))

-----------------------------------------------------------------------------
(* The Requirement Extractor called on its own *)

\* Descriptions given to extract_required_filenames: absent, empty, without
\* a filename, the text of test_extract_required_filenames, one name in
\* several spellings, names found by different patterns in an order other
\* than that of the text
FilenameInputs ==
    { None, Some(<<>>), Some(<<"n", "o", " ", "f", "i", "l", "e", " ", "h", "e", "r", "e">>),
      Some(<<"T", "h", "i", "s", " ", "f", "i", "l", "e", " ", "m", "u", "s", "t", " ", "b", "e", " ", "n", "a", "m", "e", "d", " ", "m", "a", "z", "e", "_", "s", "o", "l", "v", "e", "r", "s", ".", "p", "y", ".", " ", "I", "n", "i", "t", "i", "a", "l", "i", "z", "e", " ", Backtick, "m", "a", "z", "e", ".", "t", "x", "t", Backtick, " ", "a", "n", "d", " ", "i", "n", "c", "l", "u", "d", "e", " ", "a", " ", "r", "e", "p", "o", "r", "t", " ", "i", "n", " ", "R", "e", "p", "o", "r", "t", ".", "m", "d", ".">>),
      Some(<<"R", "e", "p", "o", "r", "t", ".", "m", "d", " ", "r", "e", "p", "o", "r", "t", ".", "M", "D", " ", "R", "E", "P", "O", "R", "T", ".", "m", "d">>),
      Some(<<"s", "e", "e", " ", Backtick, "M", "a", "z", "e", ".", "t", "x", "t", Backtick, " ", "t", "h", "e", "n", " ", "m", "a", "z", "e", ".", "t", "x", "t", " ", "a", "n", "d", " ", "a", ".", "p", "y", ",", " ", "A", ".", "P", "Y">>),
      Some(<<"d", "a", "t", "a", ".", "c", "s", "v", " ", "f", "i", "r", "s", "t", ";", " ", "i", "t", " ", "m", "u", "s", "t", " ", "b", "e", " ", "n", "a", "m", "e", "d", " ", "M", "a", "i", "n", ".", "j", "a", "v", "a">>),
      Some(<<"u", "s", "e", " ", "R", "E", "A", "D", "M", "E", ".", "m", "d", ";", " ", "f", "i", "l", "e", " ", "c", "a", "l", "l", "e", "d", " ", Backtick, "r", "e", "a", "d", "m", "e", ".", "M", "D", Backtick, ",", " ", "o", "r", " ", Backtick, "b", ".", "H", Backtick>>),
      Some(<<"i", "n", "c", "l", "u", "d", "e", " ", "a", " ", " ", "f", "i", "l", "e", " ", "n", "a", "m", "e", "d", " ", "x", ".", "y", "m", "l", " ", "a", "n", "d", " ", "x", ".", "y", "a", "m", "l", ",", " ", "X", ".", "Y", "M", "L">>) }

\* if not assignment_description: an absent description is read as an empty one
ExtractRequiredFilenames ==
    \E d \in FilenameInputs :
        Call([entry |-> "extract_required_filenames", assignment_description |-> d],
             extract_required_filenames(IF IsNone(d) THEN <<>> ELSE Val(d)))

-----------------------------------------------------------------------------
(* The HTML-to-Markdown Converter called on its own *)

\* Longest text of the alphabet below given to html_to_markdown
MaxHtmlLen == 4

\* Tags written as character references
EscapedTags == <<"&", "l", "t", ";", "b", "&", "g", "t", ";", "b", "o", "l", "d", "&", "l", "t", ";", "/", "b", "&", "g", "t", ";">>

EscapedTagsMarkdown == <<"*", "*", "b", "o", "l", "d", "*", "*">>

\* Texts given to html_to_markdown: absent; every text of at most MaxHtmlLen
\* characters over "<", ">", a newline, a space and a letter; texts with the
\* tags of every pass, with character references, with runs of newlines and
\* white space at the ends
HtmlInputs ==
    {None} \cup { Some(t) : t \in SeqsUpTo({"<", ">", "\n", " ", "p"}, MaxHtmlLen) }
    \cup { Some(EscapedTags), Some(<<"&", "a", "m", "p", ";", "l", "t", ";", "b", "&", "a", "m", "p", ";", "g", "t", ";">>), Some(<<"&", "n", "b", "s", "p", ";", "<", "p", ">", "x", "<", "/", "p", ">", "&", "n", "b", "s", "p", ";">>),
           Some(<<" ", "<", "p", ">", "E", "s", "s", "a", "y", "<", "/", "p", ">", "\n", "\n", "\n", "\n", "<", "p", ">", "r", "e", "p", "o", "r", "t", "<", "/", "p", ">", "\n">>),
           Some(<<"<", "h", "1", ">", " ", "T", "i", "t", "l", "e", " ", "<", "/", "h", "1", ">", "<", "p", ">", "a", "<", "/", "p", ">", "<", "u", "l", ">", "<", "l", "i", ">", "x", "<", "/", "l", "i", ">", "<", "l", "i", ">", "y", "<", "/", "l", "i", ">", "<", "/", "u", "l", ">">>),
           Some(<<"<", "<", "b", ">", ">", "x", "<", "/", "b", ">">>), Some(<<"<", "a", " ", "h", "r", "e", "f", "=", "\"", "u", ">", "v", "\"", " ", "i", "d", "=", "\"", "1", "\"", ">", "t", "<", "/", "a", ">">>), Some(<<"<", "b", "r", ">", "<", "b", "r", " ", "/", ">", "<", "b", "r", "/", ">", "<", "b", "r", ">">>),
           Some(<<"<", "t", "a", "b", "l", "e", ">", "<", "t", "r", ">", "<", "t", "h", ">", "h", "<", "/", "t", "h", ">", "<", "t", "d", ">", "1", "<", "/", "t", "d", ">", "<", "/", "t", "r", ">", "<", "/", "t", "a", "b", "l", "e", ">">>),
           Some(<<"<", "i", "m", "g", " ", "s", "r", "c", "=", "\"", "s", "\"", " ", "a", "l", "t", "=", "\"", "t", "\"", "/", ">", "<", "i", "m", "g", " ", "s", "r", "c", "=", "\"", "s", "\"", ">">>), Some(<<"<", "s", "t", "y", "l", "e", ">", "p", "{", "}", "<", "/", "s", "t", "y", "l", "e", ">", "<", "h", "r", "/", ">", "x", "<", "l", "i", "n", "k", "/", ">">>),
           Some(<<"<", "p", "r", "e", ">", "<", "c", "o", "d", "e", ">", "x", "\n", "\n", "\n", "\n", "y", "<", "/", "c", "o", "d", "e", ">", "<", "/", "p", "r", "e", ">">>), Some(<<"a", "<", ">", "b", "<", "c">>), Some(<<"<", "e", "m", ">", "i", "<", "/", "e", "m", ">", " ", "<", "s", "t", "r", "o", "n", "g", ">", "s", "<", "/", "s", "t", "r", "o", "n", "g", ">", " ", "<", "c", "o", "d", "e", ">", "c", "<", "/", "c", "o", "d", "e", ">">>),
           Some(<<"<", "d", "i", "v", ">", "<", "s", "p", "a", "n", ">", "t", "e", "x", "t", "<", "/", "s", "p", "a", "n", ">", "\n", "\n", "<", "/", "d", "i", "v", ">", "\n", "\n", "<", "p", ">", "\n", "<", "/", "p", ">">>) }

HtmlToMarkdown ==
    \E html \in HtmlInputs :
        Call([entry |-> "html_to_markdown", html |-> html], html_to_markdown(html))

NextFunctions ==
    \/ NormalizeSlug
    \/ NormalizeSlugAgain
    \/ InferAssignmentType
    \/ GetTemplateForLanguage
    \/ GenerateStarterFiles
    \/ InvokeAgain
    \/ InvokeSame
    \/ CreateAssignmentPage
    \/ ExtractRequiredFilenames
    \/ HtmlToMarkdown

SpecFunctions == InitFetch /\ [][NextFunctions]_vars


-----------------------------------------------------------------------------
(* Properties *)

\* A configuration value that is unset or made of spaces only
Blank(v) == IsNone(v) \/ \A i \in DOMAIN Val(v) : Val(v)[i] = " "

NotionConfigIncomplete ==
    Blank(env["NOTION_TOKEN"]) \/ Blank(env["NOTION_PARENT_PAGE_ID"])

\* The record run() returned, when it returned one
ReturnedRecord == outcome.kind = "returned" /\ ~IsNone(outcome.value)

C2_RepositoryAlwaysReturned ==
    (pc = "done" /\ ~IsNone(repo))
    => /\ ReturnedRecord
       /\ Val(outcome.value).repository = Val(repo)
       /\ Val(outcome.value).files_uploaded = ~uploadFailed

\* create_repository was called and handed back no repository
CreateRepositoryReturnedNone ==
    /\ calls.create_repository > 0
    /\ IF pc = "repo_exit" THEN IsNone(ret) ELSE IsNone(repo)

\* create_assignment_page was called and handed back no page
CreateAssignmentPageReturnedNone ==
    /\ IsNone(mock)
    /\ taskCalls.page > 0
    /\ pc \in {"page_result", "done"}
    /\ IsNone(result)

\* C3: when the remote creation call returns no result (create_repository in
\* the coding branch, create_assignment_page in the writing branch), no file
\* upload is attempted afterwards and run() ends returning None
C3_FailedCreationEndsRun ==
    (CreateRepositoryReturnedNone \/ CreateAssignmentPageReturnedNone)
    => /\ uploadLog = <<>>
       /\ pc \notin {"file_next", "file_call", "file_exit"}
       /\ pc = "done" => outcome = Returned(None)

C3_Witness ==
    /\ pc = "done"
    /\ calls.create_repository = 1
    /\ IsNone(repo)
    /\ uploadLog = <<>>
    /\ MsgRepoFailed \in printed
    /\ outcome = Returned(None)

\* C4: a run() with assignment_type coding in which the repository task
\* returned a record containing a repository invoked the repository task
\* exactly once and the page task never, and returns that record with
\* destination github, whether or not the record has a files_uploaded flag
C4_CodingRoutesToGithub ==
    (pc = "done" /\ A.assignment_type = Some("coding")
        /\ ~IsNone(result) /\ HasKey(Val(result), "repository"))
    => /\ taskCalls.repository = 1
       /\ taskCalls.page = 0
       /\ ReturnedRecord
       /\ Val(outcome.value).destination = "github"
       /\ Val(outcome.value).repository = Val(result).repository

C4_Witness ==
    /\ pc = "done"
    /\ ~IsNone(mock)
    /\ ~IsNone(A.assignment_data)
    /\ A.assignment_type = Some("coding")
    /\ ReturnedRecord
    /\ ~HasKey(Val(outcome.value), "files_uploaded")
    /\ Val(outcome.value).destination = "github"
    /\ taskCalls = [repository |-> 1, page |-> 0]

\* The page task is the stub that returns a record containing a page
PageTaskWouldReturnPage ==
    /\ ~IsNone(mock)
    /\ ~IsNone(Val(mock).page_task)
    /\ HasKey(Val(Val(mock).page_task), "page")

C6_EmptyCourseRaises ==
    (listed = 0 /\ IsNone(A.assignment_id))
    => /\ pc \in {"select", "done"}
       /\ pc = "done" => outcome = Raised("ValueError")
       /\ IsNone(assignment)
       /\ inferCount = 0
       /\ IsNone(assignment_type)
       /\ taskCalls = [repository |-> 0, page |-> 0]
       /\ calls.create_repository = 0
       /\ calls.create_page = 0
       /\ uploadLog = <<>>

C6_Witness ==
    /\ pc = "done"
    /\ A.entry = "run"
    /\ listed = 0
    /\ IsNone(A.assignment_id)
    /\ outcome = Raised("ValueError")

\* The due timestamp parses and is strictly after the current instant
FutureDue(a) == a.due_at.kind \in {"naive", "aware"} /\ a.due_at.t > Now

\* The fetch was given no identifier and ended on a listing it obtained
FetchedWithoutId == pc = "done" /\ listed > 0 /\ IsNone(A.assignment_id)

\* C7: when no identifier is given and some assignment is due strictly after
\* now, the fetch returns an assignment due after now whose due timestamp is
\* the least of those due after now
C7_EarliestUpcomingReturned ==
    (FetchedWithoutId /\ \E i \in DOMAIN assignments : FutureDue(assignments[i]))
    => /\ ReturnedRecord
       /\ FutureDue(Val(outcome.value))
       /\ \A i \in DOMAIN assignments :
             FutureDue(assignments[i])
             => Val(outcome.value).due_at.t <= assignments[i].due_at.t

\* C8: when no identifier is given, the course has assignments and none is due
\* after now, the fetch returns an assignment of the course whose creation
\* timestamp, absent read as the empty string, no other one exceeds as a string
C8_MostRecentlyCreatedReturned ==
    (FetchedWithoutId /\ \A i \in DOMAIN assignments : ~FutureDue(assignments[i]))
    => /\ ReturnedRecord
       /\ \E i \in DOMAIN assignments : assignments[i] = Val(outcome.value)
       /\ \A i \in DOMAIN assignments :
             ~StrLess(CreatedKey(Val(outcome.value)), CreatedKey(assignments[i]))

C8_Witness ==
    /\ FetchedWithoutId
    /\ Len(assignments) = 2
    /\ \A i \in DOMAIN assignments : ~FutureDue(assignments[i])
    /\ StrLess(CreatedKey(assignments[1]), CreatedKey(assignments[2]))
    /\ outcome = Returned(Some(assignments[2]))

\* The failure run() reported on its way out
FailureKind ==
    IF MsgNoAssignment \in printed THEN "no assignment found"
    ELSE IF MsgNotionIncomplete \in printed THEN "configuration incomplete"
    ELSE IF MsgRepoFailed \in printed \/ MsgPageFailed \in printed
    THEN "remote creation failed"
    ELSE "none"

\* What the caller of run() observes when the remote creation failed
RemoteCreationFailedOutcome == Returned(None)

\* C9: a run that failed for want of an assignment or of configuration ends
\* with an outcome other than the one of a failed remote creation
C9_FailureKindsDistinguishable ==
    (pc = "done" /\ FailureKind \in {"no assignment found", "configuration incomplete"})
    => outcome # RemoteCreationFailedOutcome

\* C10: in a run the listing is requested at most once, create_repository and
\* create_assignment_page are called at most once, and create_file is called
\* at most once for each path of the FileSet
C10_NoRetry ==
    /\ calls.listing <= 1
    /\ calls.create_repository <= 1
    /\ calls.create_page <= 1
    /\ taskCalls.repository <= 1
    /\ taskCalls.page <= 1
    /\ \A i, j \in DOMAIN uploadLog :
          uploadLog[i].path = uploadLog[j].path => i = j

C10_Witness ==
    /\ pc = "done"
    /\ calls.listing = 1
    /\ calls.create_repository = 1
    /\ uploadFailed
    /\ Len(uploadLog) = Len(starter_files)
    /\ Len(uploadLog) >= 2
    /\ ReturnedRecord
    /\ ~Val(outcome.value).files_uploaded

\* The positions at which an operation holds a course session, a repository session
CanvasSessionPositions == {"canvas_call", "canvas_exit", "courses_call", "courses_exit"}
GithubSessionPositions == {"repo_list_tools", "repo_call", "repo_exit", "file_call", "file_exit"}

\* C11: a course or repository session is open only inside the operation that
\* opened it (list_courses, get_course_assignments, create_repository,
\* create_file), one at a time, and none is open once the entry point has
\* returned or raised
C11_SessionsScoped ==
    /\ sessions.canvas = (IF pc \in CanvasSessionPositions THEN 1 ELSE 0)
    /\ sessions.github = (IF pc \in GithubSessionPositions THEN 1 ELSE 0)
    /\ pc = "done" => sessions = [canvas |-> 0, github |-> 0]

C11_Witness ==
    /\ pc = "done"
    /\ calls.list_tools = 1
    /\ calls.create_repository = 0
    /\ outcome = Raised("ToolError")
    /\ sessions = [canvas |-> 0, github |-> 0]

\* run() has settled the type without asking for confirmation
TypeSettledUnconfirmed ==
    /\ ~IsNone(assignment_type)
    /\ A.entry = "run"
    /\ ~A.confirm_assignment_type

\* The branch run() has entered, if any
BranchTaken ==
    IF taskCalls.repository > 0 THEN "coding"
    ELSE IF taskCalls.page > 0 \/ MsgNotionIncomplete \in printed THEN "writing"
    ELSE "none"

\* C12: without confirmation, a supplied type coding or writing is the type
\* run() settles on and the only branch it enters, whatever the assignment
\* says, and the classifier is not consulted; with the supplied type absent or
\* another word the classifier is consulted once and its answer is the type
\* and the only branch entered
C12_SuppliedTypeDecides ==
    TypeSettledUnconfirmed
    => /\ BranchTaken \in {"none", Val(assignment_type)}
       /\ pc = "done" => BranchTaken = Val(assignment_type)
       /\ IF A.assignment_type \in {Some("coding"), Some("writing")}
          THEN assignment_type = A.assignment_type /\ inferCount = 0
          ELSE /\ assignment_type = Some(infer_assignment_type(Val(assignment)))
               /\ inferCount = 1

C12_Witness ==
    /\ pc = "done"
    /\ TypeSettledUnconfirmed
    /\ A.assignment_type = Some("writing")
    /\ infer_assignment_type(Val(assignment)) = "coding"
    /\ BranchTaken = "writing"
    /\ taskCalls.page = 1

-----------------------------------------------------------------------------
\* The position after a call of the named function
Called(entry) == pc = "done" /\ ~IsNone(args) /\ Val(args).entry = entry

\* The text infer_assignment_type looks at: the lower-cased name, a space and
\* the description without its tags
InferText(a) == ToLower(a.name \o <<" ">> \o strip_html(a.description))

\* k is a substring of text
OccursIn(k, text) ==
    \E i \in 0..Len(text) : i + Len(k) <= Len(text) /\ \A j \in 1..Len(k) : text[i + j] = k[j]

\* The keywords of a set that occur in a text, each counted once
Occurring(keywords, text) == { k \in keywords : OccursIn(k, text) }

\* C13: infer_assignment_type returns "coding" exactly when at least as many
\* coding keywords as writing keywords occur in the lower-cased name plus
\* tag-stripped description, each keyword counted once; a tie, the empty text
\* included, yields "coding", and anything else yields "writing".
C13_CodingIffAtLeastAsManyKeywords ==
    Called("infer_assignment_type") =>
        LET text == InferText(Val(args).assignment)
            coding == Cardinality(Occurring(coding_keywords, text))
            writing == Cardinality(Occurring(writing_keywords, text))
        IN /\ Val(ret) \in {"coding", "writing"}
           /\ Val(ret) = "coding" <=> coding >= writing
           /\ (text = <<" ">> => Val(ret) = "coding")

\* A tie with keywords on both sides, decided for "coding"
C13_Witness ==
    /\ Called("infer_assignment_type")
    /\ LET text == InferText(Val(args).assignment)
       IN /\ Cardinality(Occurring(coding_keywords, text)) = 1
          /\ Cardinality(Occurring(writing_keywords, text)) = 1
    /\ Val(ret) = "coding"

-----------------------------------------------------------------------------
\* The positions after normalize_slug returned
Slugged == pc \in {"slug", "done"} /\ ~IsNone(args) /\ Val(args).entry = "normalize_slug"

SlugCharacters ==
    { "a", "b", "c", "d", "e", "f", "g", "h", "i", "j", "k", "l", "m", "n", "o", "p", "q",
      "r", "s", "t", "u", "v", "w", "x", "y", "z",
      "0", "1", "2", "3", "4", "5", "6", "7", "8", "9", "-" }

\* C14: for every input, normalize_slug returns only characters of [a-z0-9]
\* and hyphens, no two hyphens in a row, no hyphen first or last; the empty
\* string gives the empty string.
C14_SlugShape ==
    Slugged =>
        LET slug == Val(ret)
        IN /\ \A i \in DOMAIN slug : slug[i] \in SlugCharacters
           /\ \A i \in 1..(Len(slug) - 1) : ~(slug[i] = "-" /\ slug[i + 1] = "-")
           /\ (slug # <<>> => slug[1] # "-" /\ slug[Len(slug)] # "-")
           /\ (Val(args).name = <<>> => slug = <<>>)

\* An upper-case letter, a run of a space and a hyphen, a digit
C14_Witness ==
    /\ Slugged
    /\ Val(args).name = <<"Z", " ", "-", "7">>
    /\ Val(ret) = <<"z", "-", "7">>

\* C15: normalize_slug is idempotent, normalize_slug(normalize_slug(x)) =
\* normalize_slug(x) for every input x.
C15_SlugIdempotent ==
    (pc = "done" /\ Slugged) => Val(result) = Val(ret)

\* A name that is not a slug, normalized twice
C15_Witness ==
    /\ pc = "done" /\ Slugged
    /\ Val(args).name = <<"-", "a", "!", "Z">>
    /\ Val(ret) = <<"a", "-", "z">>
    /\ Val(result) = <<"a", "-", "z">>

-----------------------------------------------------------------------------
\* The registered aliases with their bundles
Aliases == RangeOf(TEMPLATE_MAP)

\* C16: get_template_for_language resolves a selector, whatever its case, to
\* the bundle of the alias it equals; otherwise to the bundle of the longest
\* alias that is a substring of it; otherwise to the Python bundle.
C16_TemplateResolution ==
    Called("get_template_for_language") =>
        LET language == ToLower(Val(args).language)
            exact == { e \in Aliases : e.key = language }
            within == { e \in Aliases : OccursIn(e.key, language) }
            longest == { e \in within : \A f \in within : Len(f.key) <= Len(e.key) }
        IN IF exact # {} THEN \A e \in exact : Val(ret) = e.template
           ELSE IF within # {} THEN \E e \in longest : Val(ret) = e.template
           ELSE Val(ret) = PYTHON_TEMPLATES

\* A selector that contains "java", "script" and "javascript" and equals none
C16_Witness ==
    /\ Called("get_template_for_language")
    /\ Val(args).language = <<"M", "y", "J", "a", "v", "a", "S", "c", "r", "i", "p", "t">>
    /\ Val(ret) = JAVASCRIPT_TEMPLATES
    /\ Val(ret) # JAVA_TEMPLATES

-----------------------------------------------------------------------------
\* The content stored under a path of a FileSet, and the texts rendered in it
FileContent(files, path) == files[CHOOSE i \in DOMAIN files : files[i].path = path].content
RenderedTexts(content) == { content[i].text : i \in DOMAIN content }
Paths(files) == { files[i].path : i \in DOMAIN files }

\* C17: for every selector and every input the FileSet of
\* generate_starter_files holds every path of the resolved bundle and
\* ASSIGNMENT.md, whose content holds the full description, not truncated,
\* and the due date.
C17_BundleAndBrief ==
    Called("generate_starter_files") =>
        LET files == Val(ret)
            bundle == get_template_for_language(Val(args).language)
        IN /\ \A i \in DOMAIN bundle : bundle[i].path \in Paths(files)
           /\ "ASSIGNMENT.md" \in Paths(files)
           /\ Val(args).assignment_description
                  \in RenderedTexts(FileContent(files, "ASSIGNMENT.md"))
           /\ Val(args).due_date \in RenderedTexts(FileContent(files, "ASSIGNMENT.md"))

\* A description longer than the short one may be, for a Java target
C17_Witness ==
    /\ Called("generate_starter_files")
    /\ Val(args).language = <<"j", "a", "v", "a">>
    /\ Len(Val(args).assignment_description) > ShortDescriptionLimit
    /\ Val(args).short_description = <<>>
    /\ Paths(Val(ret)) = {"README.md", "Main.java", "Test.java", ".gitignore", "ASSIGNMENT.md"}
    /\ Val(args).assignment_description
           \in RenderedTexts(FileContent(Val(ret), "ASSIGNMENT.md"))

-----------------------------------------------------------------------------
\* The assignment-specific files and what triggers each in a description:
\* the filename is asked for, or the word occurs in the description
SpecificPaths == {"maze_solvers.py", "maze.txt", "Report.md"}

Triggered(path, description) ==
    LET requested == { ToLower(f) : f \in RangeOf(extract_required_filenames(description)) }
    IN CASE path = "maze_solvers.py" -> F_maze_solvers \in requested
         [] path = "maze.txt" ->
                F_maze_txt \in requested \/ OccursIn(W_maze, ToLower(description))
         [] path = "Report.md" ->
                F_report_md \in requested \/ OccursIn(W_report, ToLower(description))

BundlePaths(language) ==
    LET bundle == get_template_for_language(language)
    IN { bundle[i].path : i \in DOMAIN bundle }

\* C18: generate_starter_files adds an assignment-specific file exactly when
\* the selector resolves to the Python bundle and the trigger of the file is
\* in the description; for a selector resolving to another bundle the FileSet
\* is the paths of the bundle and ASSIGNMENT.md.
C18_SpecificFilesIffPythonBundle ==
    Called("generate_starter_files") =>
        LET python == get_template_for_language(Val(args).language) = PYTHON_TEMPLATES
        IN /\ \A path \in SpecificPaths :
                 path \in Paths(Val(ret))
                     <=> (python /\ Triggered(path, Val(args).assignment_description))
           /\ (~python =>
                 Paths(Val(ret)) = BundlePaths(Val(args).language) \cup {"ASSIGNMENT.md"})

\* C19: for a Python target whose description asks for maze_solvers.py, the
\* file defines one stub per function name detected in the description, in
\* the order first seen, and the three default stubs exactly when no name is
\* detected.
C19_OneStubPerDetectedName ==
    (/\ Called("generate_starter_files")
     /\ get_template_for_language(Val(args).language) = PYTHON_TEMPLATES
     /\ "maze_solvers.py" \in Paths(Val(ret))) =>
        LET content == FileContent(Val(ret), "maze_solvers.py")
            stubs == [i \in 1..(Len(content) - 1) |-> content[i + 1].text]
            detected == extract_required_function_names(Val(args).assignment_description)
        IN /\ content[1].name = "assignment_name"
           /\ \A i \in 2..Len(content) : content[i].name = "def"
           /\ stubs = (IF detected = <<>> THEN DefaultMazeFunctions ELSE detected)

\* C20: in every FileSet of generate_starter_files the description rendered
\* into a template file other than the README is at most 200 characters long,
\* whatever the description and the short description given; the full
\* description goes to the README and ASSIGNMENT.md only.
C20_ShortDescriptionInCodeFiles ==
    Called("generate_starter_files") =>
        \A i \in DOMAIN Val(ret) :
            Val(ret)[i].path \notin {"README.md", "ASSIGNMENT.md"} =>
                \A j \in DOMAIN Val(ret)[i].content :
                    Val(ret)[i].content[j].name = "assignment_description" =>
                        Len(Val(ret)[i].content[j].text) <= ShortDescriptionLimit

-----------------------------------------------------------------------------
-----------------------------------------------------------------------------
\* C22: every result record returned by a successful run(), in the coding
\* branch and in the writing branch alike, contains the destination kind
\* ("destination"), a reference to the created resource ("repository" or
\* "page") and the list of generated file paths ("files_created"); checked on
\* the runs of the real tasks.
C22_ResultRecordComplete ==
    (pc = "done" /\ ReturnedRecord /\ IsNone(mock)) =>
        /\ HasKey(Val(outcome.value), "destination")
        /\ HasKey(Val(outcome.value), "repository") \/ HasKey(Val(outcome.value), "page")
        /\ HasKey(Val(outcome.value), "files_created")

-----------------------------------------------------------------------------
\* C23: in every run of the coding branch the FileSet is built before the
\* remote repository is created: at no moment does a remote repository exist
\* (create_repository has returned its record to the task) while the file
\* generation has not completed (the FileSet, never empty, is still unset).
C23_FileSetBeforeRepository ==
    ~IsNone(repo) => starter_files # <<>>

-----------------------------------------------------------------------------
\* C24: the page body sent to the page-hosting service always has exactly
\* three blocks in the order heading, due-date line, description paragraph;
\* the text of the description paragraph is never longer than 2000 characters
\* and never empty (the fixed placeholder stands for an empty description),
\* and the title is never longer than 2000 characters.
C24_PageBody ==
    Called("create_assignment_page") =>
        LET body == Val(ret).children
        IN  /\ Len(body) = 3
            /\ body[1].type = "heading_2" /\ body[1].content = HeadingText
            /\ body[2].type = "paragraph"
            /\ body[2].content = DueLabel \o Val(args).due_date
            /\ body[3].type = "paragraph"
            /\ Len(body[3].content) \in 1..NotionTextLimit
            /\ Val(args).description = <<>> => body[3].content = Placeholder
            /\ Len(Val(args).description) \in 1..NotionTextLimit =>
                   body[3].content = Val(args).description
            /\ Len(Val(ret).title) <= NotionTextLimit

\* A title and a description of 2001 characters, both cut to 2000
C24_Witness ==
    /\ Called("create_assignment_page")
    /\ Len(Val(args).description) = NotionTextLimit + 1
    /\ Len(Val(args).title) = NotionTextLimit + 1
    /\ Len(Val(ret).children[3].content) = NotionTextLimit
    /\ Len(Val(ret).title) = NotionTextLimit

-----------------------------------------------------------------------------
\* The filenames the five patterns match in a description, in the order the
\* passes of extract_required_filenames see them
MatchedFilenames(text) ==
    FindAll(text, 1, 1) \o FindAll(text, 1, 2) \o FindAll(text, 1, 3)
        \o FindAll(text, 1, 4) \o FindAll(text, 1, 5)

\* The position at which a name is first seen, in any spelling
FirstSeen(matched, name) ==
    CHOOSE i \in DOMAIN matched :
        /\ ToLower(matched[i]) = ToLower(name)
        /\ \A j \in 1..(i - 1) : ToLower(matched[j]) # ToLower(name)

\* C25: extract_required_filenames returns a sequence in which no two entries
\* are equal ignoring case, each matched filename is represented by its
\* first-seen spelling, and entries keep first-seen order; empty or absent
\* text yields the empty sequence.
C25_FilenamesUnique ==
    Called("extract_required_filenames") =>
        LET d == Val(args).assignment_description
            matched == IF IsNone(d) THEN <<>> ELSE MatchedFilenames(Val(d))
            unique == Val(ret)
        IN  /\ \A i, j \in DOMAIN unique :
                   ToLower(unique[i]) = ToLower(unique[j]) => i = j
            /\ \A k \in DOMAIN matched :
                   \E i \in DOMAIN unique : unique[i] = matched[FirstSeen(matched, matched[k])]
            /\ \A i \in DOMAIN unique :
                   \E k \in DOMAIN matched :
                       /\ unique[i] = matched[k]
                       /\ k = FirstSeen(matched, unique[i])
            /\ \A i, j \in DOMAIN unique :
                   i < j => FirstSeen(matched, unique[i]) < FirstSeen(matched, unique[j])
            /\ (IsNone(d) \/ Val(d) = <<>>) => unique = <<>>

\* One name matched in three spellings and returned once, in the first
C25_Witness ==
    /\ Called("extract_required_filenames")
    /\ ~IsNone(Val(args).assignment_description)
    /\ Len(MatchedFilenames(Val(Val(args).assignment_description))) = 3
    /\ Len(Val(ret)) = 1
    /\ Val(ret)[1] = MatchedFilenames(Val(Val(args).assignment_description))[1]

-----------------------------------------------------------------------------
\* A tag in a text: "<", one or more characters other than ">", then ">"
HasTag(text) ==
    \E i, j \in DOMAIN text :
        /\ text[i] = "<" /\ text[j] = ">" /\ j >= i + 2
        /\ \A k \in (i + 1)..(j - 1) : text[k] # ">"

\* C26: for every input, html_to_markdown returns a string that contains no
\* run of three or more consecutive newlines, has no leading or trailing
\* white space, and contains no remaining tag; empty or absent input returns
\* the empty string.
C26_MarkdownClean ==
    Called("html_to_markdown") =>
        LET markdown == Val(ret)
        IN  /\ \A i \in 1..(Len(markdown) - 2) :
                   ~(markdown[i] = "\n" /\ markdown[i + 1] = "\n" /\ markdown[i + 2] = "\n")
            /\ markdown # <<>> => ~IsSpace(markdown[1]) /\ ~IsSpace(markdown[Len(markdown)])
            /\ ~HasTag(markdown)
            /\ (IsNone(Val(args).html) \/ Val(Val(args).html) = <<>>) => markdown = <<>>

\* Tags written as character references are decoded first and converted
C26_Witness ==
    /\ Called("html_to_markdown")
    /\ Val(args).html = Some(EscapedTags)
    /\ Val(ret) = EscapedTagsMarkdown

-----------------------------------------------------------------------------
\* The paths create_file was called with, in order
UploadedPaths == [i \in DOMAIN uploadLog |-> uploadLog[i].path]

\* C27: after a repository is created, create_directory_structure attempts
\* the upload of every FileSet entry exactly once, in FileSet order, going on
\* with the remaining entries after an entry fails, and it returns true exactly
\* when every create_file call returned true: once the run is over the paths
\* uploaded are the paths of the FileSet and the flag is the conjunction.
C27_EveryEntryUploadedOnce ==
    (pc = "done" /\ ~IsNone(repo)) =>
        /\ UploadedPaths = starter_files
        /\ success <=> ~uploadFailed

-----------------------------------------------------------------------------
\* The remote calls made so far: listings, list_tools, create_repository,
\* create_assignment_page and create_or_update_file
RemoteCalls ==
    calls.listing + calls.list_tools + calls.create_repository + calls.create_page
        + Len(uploadLog)

OpenSessions == sessions.canvas + sessions.github

\* C28: within one pipeline run all remote calls are sequential: at most one
\* external session is open at every moment, a session is opened only when
\* none is open, and a step starts at most one remote call, which it makes
\* only once the call before has returned (its session closed, or the same
\* session for list_tools and create_repository).
C28_Sequential ==
    [][/\ OpenSessions <= 1
       /\ OpenSessions' <= 1
       /\ OpenSessions' > OpenSessions => OpenSessions = 0
       /\ RemoteCalls' <= RemoteCalls + 1
       /\ RemoteCalls' > RemoteCalls =>
              /\ OpenSessions <= 1
              /\ OpenSessions = 1 => pc \in {"canvas_call", "courses_call", "repo_list_tools", "repo_call", "file_call"}]_vars

\* The session of the second upload is open after the listing, list_tools,
\* create_repository and the first upload have returned
C28_Witness ==
    /\ pc = "file_call"
    /\ sessions = [canvas |-> 0, github |-> 1]
    /\ calls.listing = 1
    /\ calls.create_repository = 1
    /\ Len(uploadLog) = 1

-----------------------------------------------------------------------------
\* C29: in the coding branch the owner under which the repository is created
\* equals the owner to which the starter files are uploaded, for every value
\* of GITHUB_ORG (unset, empty, a name, padded with white space, starting
\* with "#") and of GITHUB_USERNAME.
C29_SameOwner ==
    ~IsNone(repo) =>
        \A i \in DOMAIN uploadLog : uploadLog[i].owner = Val(repo).owner

-----------------------------------------------------------------------------
\* No assignment of a listing has the identifier
NoneHasId(listing, id) == \A i \in DOMAIN listing : listing[i].id # id

\* C30: when an assignment identifier is given to run() and no assignment of
\* the course has it (a course without assignments included), the fetch
\* yields no record, and with no record run() ends at once: nothing is
\* classified, neither the repository service nor the page service is called,
\* and no result record is returned.
C30_MissingAssignmentEndsRun ==
    [][/\ (/\ pc = "select"
           /\ A.entry = "run"
           /\ ~IsNone(A.assignment_id)
           /\ NoneHasId(assignments, Val(A.assignment_id)))
          => (pc' = "fetched" /\ IsNone(assignment'))
       /\ (pc = "fetched" /\ IsNone(assignment))
          => /\ pc' = "done"
             /\ outcome' = Returned(None)
             /\ MsgNoAssignment \in printed'
             /\ inferCount' = 0
             /\ taskCalls' = [repository |-> 0, page |-> 0]
             /\ calls'.list_tools = 0 /\ calls'.create_repository = 0
             /\ calls'.create_page = 0
             /\ uploadLog' = <<>>]_vars
====
